---- MODULE Spec2Model ----
(***************************************************************************)
(* Peer-review orchestration of anrd30/ajrasakha_test: the in-memory       *)
(* reviewer assignment engine (ReviewerAssignmentService), the in-memory   *)
(* review ledger and blind ranking (PeerReviewService), the Mongo review   *)
(* and assignment repositories, and the coordinator (AnswerService).       *)
(*                                                                         *)
(* Numbers that the code computes in floating point are kept exact here    *)
(* by scaling: a reviewer's score is the rational Score10Num / max (ten    *)
(* times the code's score), an average is the pair (sum, count).           *)
(*                                                                         *)
(* Left out, because no operation reads them: the comments of a review     *)
(* and the createdAt / updatedAt stamps of every record.  The reviewer     *)
(* pool is an input: reviewers 1..3 carry the ratings, counts and          *)
(* expertise of the built-in profiles, loads and capacities are drawn,     *)
(* and the pool holds reviewers whose _id is an ObjectId and one whose     *)
(* _id, like 'reviewer_3', is not.  The Question and Answer stores and     *)
(* isValidObjectId lie outside the sources and are modelled from their     *)
(* use by AnswerService and the repositories.                              *)
(***************************************************************************)
EXTENDS Integers, Sequences, FiniteSets, TLC

\* ------------------------------------------------------------------ bounds
NumReviewers == 4
MaxCapacity == 2
MaxAssignments == 4
MaxLifecycleAssignments == 2
MaxReviews == 2
MaxBlindAssignments == 2
MaxRankings == 2
MaxRank == 3
\* assignments in the store of the specification of the source's own pool
MaxSourceAssignments == 8
\* the answer counts of a question kept within -MaxAnswerCount..MaxAnswerCount
MaxAnswerCount == 2
MaxTicks == 1
\* Date.now() at the start, in hours
Epoch == 1000

\* ------------------------------------------------------------- vocabulary
Reviewers == 1..NumReviewers
AnswerIds == {"ans1", "ans2"}
Priorities == {"low", "medium", "high", "urgent"}
AssignmentStatuses == {"pending", "accepted", "declined", "completed"}
\* requiredExpertise arguments: absent, a tag some reviewers have, a tag nobody has
ExpertiseArgs == {{}, {"science"}, {"technology"}, {"mathematics", "physics"}, {"poetry"}}
NoReviewer == 0
Questions == {"q1", "q2"}
Authors == {"u1", "u2"}
\* the reviewers of the pool whose _id has the shape of a Mongo ObjectId
ObjectIdReviewers == Reviewers \ {3}
ReviewStatuses == {"assigned", "in_progress", "submitted", "overdue", "cancelled"}
\* an optional field that is not set (score?, similarity?, submittedAt?)
Undefined == -1
\* score arguments, inside and outside 1..5
ScoreArgs == 0..6
\* similarity arguments in tenths: absent or 0.8
SimilarityArgs == {Undefined, 8}
NoId == <<"none", 0>>

VARIABLES
    reviewerProfiles,     \* ReviewerAssignmentService: reviewerProfiles[]
    reviewerAssignments,  \* ReviewerAssignmentService: reviewerAssignments[]
    peerReviews,          \* PeerReviewService: peerReviews[]
    blindAssignments,     \* PeerReviewService: blindAssignments[]
    answerRankings,       \* PeerReviewService: answerRankings[]
    dbReviews,            \* Mongo collection peerReviews (PeerReviewRepository)
    dbAssignments,        \* Mongo collection reviewerAssignments (ReviewerAssignmentRepository)
    dbQuestions,          \* the Question store behind IQuestionRepository
    dbAnswers,            \* the Answer store behind IAnswerRepository
    nextId,               \* stands for `${Date.now()}_${Math.random()}` and for insertedId: fresh per record
    now,                  \* Date.now(), in hours
    requests,             \* the addAnswer requests in flight: where each stands, the assignments
                          \* it still has to record, and the pool when they came in
    last                  \* the last call and what it returned (for AnswerService.submitReview
                          \* together with the reviewId it was called with)

engineVars == <<reviewerProfiles, reviewerAssignments>>
ledgerVars == <<peerReviews>>
blindVars == <<blindAssignments, answerRankings>>
dbVars == <<dbReviews, dbAssignments, dbQuestions, dbAnswers>>
vars == <<reviewerProfiles, reviewerAssignments, peerReviews, blindAssignments,
          answerRankings, dbReviews, dbAssignments, dbQuestions, dbAnswers,
          nextId, now, requests, last>>

\* --------------------------------------------------------- reviewer pool
\* The fixed part of a profile.  Reviewers 1..3 carry the values of the
\* profiles the service is built with; further reviewers stand for profiles
\* added to the pool.
AverageRating10(r) == CASE r = 1 -> 42 [] r = 2 -> 45 [] r = 3 -> 38 [] OTHER -> 42
ReviewCount(r) == CASE r = 1 -> 15 [] r = 2 -> 22 [] r = 3 -> 8 [] OTHER -> 250
Expertise(r) ==
    CASE r = 1 -> {"science", "technology"}
      [] r = 2 -> {"mathematics", "physics"}
      [] r = 3 -> {"literature", "history"}
      [] OTHER -> {"science"}

Min(a, b) == IF a < b THEN a ELSE b

\* ---------------------------------------------------- AssignmentScorer
PriorityBonus(priority) == IF priority \in {"high", "urgent"} THEN 10 ELSE 0

\* the priority bonus added before the division by the capacity
Score10Num_BonusPerCapacity(profiles, r, priority) ==
    (300 + 20 * AverageRating10(r) + Min(ReviewCount(r), 200))
        * profiles[r].maxConcurrentReviews
    + 10 * PriorityBonus(priority)
    - 300 * profiles[r].currentReviewLoad

\* Ten times calculateReviewerScore, times maxConcurrentReviews:
\*   score = (1 - load/max)*30 + averageRating*20 + min(reviewCount/10, 20) + bonus
Score10Num(profiles, r, priority) ==
    (300 + 20 * AverageRating10(r) + Min(ReviewCount(r), 200)
         + 10 * PriorityBonus(priority)) * profiles[r].maxConcurrentReviews
    - 300 * profiles[r].currentReviewLoad

\* the comparator turned round: lower score first
ScoreGreater_Lower(profiles, b, a, priority) ==
    Score10Num(profiles, b, priority) * profiles[a].maxConcurrentReviews
        < Score10Num(profiles, a, priority) * profiles[b].maxConcurrentReviews

\* scoreB - scoreA > 0 in the sort comparator: b is placed before a
ScoreGreater(profiles, b, a, priority) ==
    Score10Num(profiles, b, priority) * profiles[a].maxConcurrentReviews
        > Score10Num(profiles, a, priority) * profiles[b].maxConcurrentReviews

\* Array.prototype.sort with (a, b) => scoreB - scoreA: stable, descending.
RECURSIVE InsertByScore(_, _, _, _)
InsertByScore(profiles, sorted, r, priority) ==
    IF sorted = <<>> THEN <<r>>
    ELSE IF ScoreGreater(profiles, r, Head(sorted), priority)
         THEN <<r>> \o sorted
         ELSE <<Head(sorted)>> \o InsertByScore(profiles, Tail(sorted), r, priority)

RECURSIVE SortByScore(_, _, _)
SortByScore(profiles, seq, priority) ==
    IF seq = <<>> THEN <<>>
    ELSE InsertByScore(profiles,
                       SortByScore(profiles, SubSeq(seq, 1, Len(seq) - 1), priority),
                       seq[Len(seq)], priority)

\* the order of the reviewerProfiles array
ReviewerOrder == [i \in 1..NumReviewers |-> i]

\* availability by load alone
IsAvailable_AnyStatus(profiles, r) ==
    profiles[r].currentReviewLoad < profiles[r].maxConcurrentReviews

IsAvailable(profiles, r) ==
    profiles[r].isActive
    /\ profiles[r].currentReviewLoad < profiles[r].maxConcurrentReviews

\* reviewerProfiles.filter(r => r.isActive && r.currentReviewLoad < r.maxConcurrentReviews)
AvailableReviewers(profiles) ==
    SelectSeq(ReviewerOrder, LAMBDA r: IsAvailable(profiles, r))

\* the candidate list without the expertise filter
CandidatePool_Unfiltered(profiles, requiredExpertise) ==
    AvailableReviewers(profiles)

\* the candidate list without the fall-back to every available reviewer
CandidatePool_NoFallback(profiles, requiredExpertise) ==
    LET all == AvailableReviewers(profiles)
    IN  IF requiredExpertise # {}
        THEN SelectSeq(all, LAMBDA r: Expertise(r) \cap requiredExpertise # {})
        ELSE all

\* the candidate list of assignReviewersToAnswer before it is sorted
CandidatePool(profiles, requiredExpertise) ==
    LET all == AvailableReviewers(profiles)
        matching == IF requiredExpertise # {}
                    THEN SelectSeq(all, LAMBDA r: Expertise(r) \cap requiredExpertise # {})
                    ELSE all
    IN  IF matching = <<>> /\ requiredExpertise # {} THEN all ELSE matching

\* the slice taken one reviewer too long
ReviewersToAssign_TakeFour(profiles, priority, requiredExpertise) ==
    LET sorted == SortByScore(profiles, CandidatePool(profiles, requiredExpertise), priority)
    IN  SubSeq(sorted, 1, Min(4, Len(sorted)))

\* availableReviewers.slice(0, Math.min(3, availableReviewers.length)) after the sort
ReviewersToAssign(profiles, priority, requiredExpertise) ==
    LET sorted == SortByScore(profiles, CandidatePool(profiles, requiredExpertise), priority)
    IN  SubSeq(sorted, 1, Min(3, Len(sorted)))

\* getDueDateForPriority: Date.now() plus the window of the priority, in hours
DueDateForPriority(t, priority) ==
    CASE priority = "urgent" -> t + 24
      [] priority = "high" -> t + 3 * 24
      [] priority = "medium" -> t + 7 * 24
      [] priority = "low" -> t + 14 * 24
      [] OTHER -> t + 7 * 24

\* the assignment record built in the loop of assignReviewersToAnswer
NewAssignment(id, answerId, r, t, priority) ==
    [_id |-> <<"assignment", id>>, answerId |-> answerId, reviewerId |-> r,
     assignedAt |-> t, dueDate |-> t + DueDateForPriority(t, priority),
     priority |-> priority, status |-> "pending"]

\* reviewer.currentReviewLoad++ for every reviewer of the list
IncrementLoads(profiles, selected) ==
    [r \in Reviewers |->
        IF \E i \in 1..Len(selected) : selected[i] = r
        THEN [profiles[r] EXCEPT !.currentReviewLoad = @ + 1]
        ELSE profiles[r]]

\* ReviewerAssignmentService.assignReviewersToAnswer(answerId, priority, requiredExpertise):
\* the returned assignments, the store and the profiles after the call.
AssignReviewersToAnswer(profiles, store, idc, t, answerId, priority, requiredExpertise) ==
    LET selected == ReviewersToAssign(profiles, priority, requiredExpertise)
        created == [i \in 1..Len(selected) |->
                        NewAssignment(idc + i - 1, answerId, selected[i], t, priority)]
    IN  [assignments |-> created,
         store |-> store \o created,
         profiles |-> IncrementLoads(profiles, selected),
         nextId |-> idc + Len(selected)]

\* the sweep taken over every active reviewer
OverloadedReviewers_AllActive(profiles) ==
    SelectSeq(ReviewerOrder, LAMBDA r: profiles[r].isActive)

\* reviewerProfiles.filter(r => r.isActive && r.currentReviewLoad > r.maxConcurrentReviews * 0.8)
OverloadedReviewers(profiles) ==
    SelectSeq(ReviewerOrder,
              LAMBDA r: profiles[r].isActive
                        /\ 5 * profiles[r].currentReviewLoad > 4 * profiles[r].maxConcurrentReviews)

\* findAlternativeReviewer(excludeReviewerId, priority): NoReviewer stands for null
FindAlternativeReviewer(profiles, excludeReviewerId, priority) ==
    LET availableReviewers ==
            SelectSeq(ReviewerOrder,
                      LAMBDA r: r # excludeReviewerId /\ IsAvailable(profiles, r))
    IN  IF availableReviewers = <<>> THEN NoReviewer
        ELSE Head(SortByScore(profiles, availableReviewers, priority))

\* reviewerAssignments.filter(a => a.reviewerId === reviewer._id && a.status === 'pending'),
\* as positions in the store
PendingAssignments(store, r) ==
    SelectSeq([i \in 1..Len(store) |-> i],
              LAMBDA i: store[i].reviewerId = r /\ store[i].status = "pending")

\* the inner loop of redistributeAssignments over one reviewer's pending
\* assignments; moves lists the reassignments made so far, in order
RECURSIVE ReassignPending(_, _, _, _, _)
ReassignPending(profiles, store, moves, r, pending) ==
    IF pending = <<>> THEN [profiles |-> profiles, store |-> store, moves |-> moves]
    ELSE LET i == Head(pending)
             alt == FindAlternativeReviewer(profiles, r, store[i].priority)
         IN  IF alt = NoReviewer
             THEN ReassignPending(profiles, store, moves, r, Tail(pending))
             ELSE ReassignPending(
                      [profiles EXCEPT ![r].currentReviewLoad = @ - 1,
                                       ![alt].currentReviewLoad = @ + 1],
                      [store EXCEPT ![i].reviewerId = alt],
                      Append(moves, [assignment |-> i, from |-> r, to |-> alt]),
                      r, Tail(pending))

\* the outer loop of redistributeAssignments over the overloaded reviewers
RECURSIVE RedistributeOver(_, _, _, _)
RedistributeOver(profiles, store, moves, overloaded) ==
    IF overloaded = <<>> THEN [profiles |-> profiles, store |-> store, moves |-> moves]
    ELSE LET r == Head(overloaded)
             step == ReassignPending(profiles, store, moves, r, PendingAssignments(store, r))
         IN  RedistributeOver(step.profiles, step.store, step.moves, Tail(overloaded))

\* a lookup that takes the first assignment whatever the id
FindAssignment_First(store, assignmentId) ==
    IF store # <<>> THEN 1 ELSE 0

\* reviewerAssignments.find(a => a._id === assignmentId): its position, 0 when absent
FindAssignment(store, assignmentId) ==
    IF \E i \in 1..Len(store) : store[i]._id = assignmentId
    THEN CHOOSE i \in 1..Len(store) :
            /\ store[i]._id = assignmentId
            /\ \A j \in 1..(i - 1) : store[j]._id # assignmentId
    ELSE 0

\* the decrement without its guard currentReviewLoad > 0
DecrementLoad_NoFloor(profiles, r) ==
    IF r \in Reviewers
    THEN [profiles EXCEPT ![r].currentReviewLoad = @ - 1]
    ELSE profiles

\* the load update of updateAssignmentStatus for the reviewer of a completed assignment
DecrementLoad(profiles, r) ==
    IF r \in Reviewers /\ profiles[r].currentReviewLoad > 0
    THEN [profiles EXCEPT ![r].currentReviewLoad = @ - 1]
    ELSE profiles

\* ReviewerAssignmentService.updateAssignmentStatus(assignmentId, status)
UpdateStatusInStore(profiles, store, assignmentId, status) ==
    LET i == FindAssignment(store, assignmentId)
    IN  IF i = 0 THEN [ok |-> FALSE, profiles |-> profiles, store |-> store]
        ELSE [ok |-> TRUE,
              store |-> [store EXCEPT ![i].status = status],
              profiles |-> IF status = "completed"
                           THEN DecrementLoad(profiles, store[i].reviewerId)
                           ELSE profiles]

\* ------------------------------------------------------- ReviewLedger
\* the review record the callers of createReview build: assigned, nothing optional set
NewReview(id, answerId, reviewerId, t) ==
    [_id |-> id, answerId |-> answerId, reviewerId |-> reviewerId,
     score |-> Undefined, similarity |-> Undefined, status |-> "assigned",
     assignedAt |-> t, submittedAt |-> Undefined]

\* peerReviews.find(r => r._id === reviewId): its position, 0 when absent
FindReview(store, reviewId) ==
    IF \E i \in 1..Len(store) : store[i]._id = reviewId
    THEN CHOOSE i \in 1..Len(store) :
            /\ store[i]._id = reviewId
            /\ \A j \in 1..(i - 1) : store[j]._id # reviewId
    ELSE 0

\* the writes of PeerReviewService.submitReview to the review it found
SubmittedReview(review, score, similarity, t) ==
    [review EXCEPT !.score = score, !.similarity = similarity,
                   !.status = "submitted", !.submittedAt = t]

\* PeerReviewService.submitReview(reviewId, score, comments, similarity)
SubmitReviewInStore(store, reviewId, score, similarity, t) ==
    LET i == FindReview(store, reviewId)
    IN  IF i = 0 THEN [ok |-> FALSE, store |-> store]
        ELSE [ok |-> TRUE,
              store |-> [store EXCEPT ![i] = SubmittedReview(store[i], score, similarity, t)]]

\* ReviewerAssignmentService.getAssignmentsForAnswer(answerId).find(a => a.reviewerId === reviewerId):
\* the id of the first such assignment, NoId when there is none
AssignmentOf(store, answerId, reviewerId) ==
    LET hits == SelectSeq(store, LAMBDA a: a.answerId = answerId /\ a.reviewerId = reviewerId)
    IN  IF hits = <<>> THEN NoId ELSE Head(hits)._id

\* ------------------------------------------------------ repositories
\* isValidObjectId(id) on a record id: insertedIds are ObjectIds, the ids the
\* in-memory services make up ('assignment_...', 'review_...') are not
IsValidObjectId(id) == id[1] = "oid"

\* isValidObjectId(reviewerId)
IsValidReviewerId(r) == r \in ObjectIdReviewers

\* PeerReviewRepository.createReview(review, session); the answer ids reaching it
\* are insertedIds of the Answer store
RepoCreateReview(db, idc, answerId, reviewerId, t) ==
    IF ~IsValidReviewerId(reviewerId)
    THEN [threw |-> TRUE, db |-> db]
    ELSE [threw |-> FALSE,
          db |-> Append(db, NewReview(<<"oid", idc>>, answerId, reviewerId, t))]

\* ReviewerAssignmentRepository.createAssignment(assignment, session): the record
\* is stored under the _id the assignment already carries
RepoCreateAssignment(db, assignment) ==
    IF ~IsValidReviewerId(assignment.reviewerId)
    THEN [threw |-> TRUE, db |-> db]
    ELSE [threw |-> FALSE, db |-> Append(db, assignment)]

\* PeerReviewRepository.submitReview(reviewId, score, comments, similarity, session)
RepoSubmitReview(db, reviewId, score, similarity, t) ==
    IF ~IsValidObjectId(reviewId) \/ score < 1 \/ score > 5
    THEN [threw |-> TRUE, db |-> db]
    ELSE LET i == FindReview(db, reviewId)
         IN  [threw |-> FALSE,
              db |-> IF i = 0 THEN db
                     ELSE [db EXCEPT ![i].score = score,
                                     ![i].status = "submitted",
                                     ![i].submittedAt = t,
                                     ![i].similarity = IF similarity = Undefined
                                                       THEN @ ELSE similarity]]

\* ReviewerAssignmentRepository.updateAssignmentStatus -> updateAssignment
RepoUpdateAssignmentStatus(db, assignmentId, status) ==
    IF ~IsValidObjectId(assignmentId)
    THEN [threw |-> TRUE, db |-> db]
    ELSE LET i == FindAssignment(db, assignmentId)
         IN  [threw |-> FALSE,
              db |-> IF i = 0 THEN db ELSE [db EXCEPT ![i].status = status]]

\* reviews.filter(r => r.status === 'submitted' && r.score !== undefined)
CompletedReviewsOf(db, answerId) ==
    SelectSeq(db, LAMBDA r: r.answerId = answerId /\ r.status = "submitted"
                            /\ r.score # Undefined)

\* completedReviews.reduce((sum, r) => sum + (r.score || 0), 0)
RECURSIVE TotalScore(_)
TotalScore(reviews) ==
    IF reviews = <<>> THEN 0 ELSE Head(reviews).score + TotalScore(Tail(reviews))

ThresholdReached_TwoSuffice(total, count) == 2 * total >= 7 * count /\ count >= 2

\* averageScore >= 3.5 && completedCount >= 3, with averageScore = total / count
ThresholdReached(total, count) == 2 * total >= 7 * count /\ count >= 3

\* PeerReviewRepository.getReviewStatsForAnswer(answerId): averageScore is the
\* fraction scoreSum / scoreCount, 0 / 1 with no completed review
ReviewStats(db, answerId) ==
    LET completed == CompletedReviewsOf(db, answerId)
        count == Len(completed)
        total == TotalScore(completed)
    IN  [answerId |-> answerId,
         totalReviews |-> Len(SelectSeq(db, LAMBDA r: r.answerId = answerId)),
         completedReviews |-> count,
         scoreSum |-> IF count > 0 THEN total ELSE 0,
         scoreCount |-> IF count > 0 THEN count ELSE 1,
         thresholdReached |-> count > 0 /\ ThresholdReached(total, count)]

\* PeerReviewService.calculateSimilarity(answerId): average is the fraction
\* averageSum / averageCount, 0 / 1 with fewer than two completed reviews
Similarity(store, answerId) ==
    LET completedReviews == CompletedReviewsOf(store, answerId)
        count == Len(completedReviews)
        total == TotalScore(completedReviews)
    IN  IF count < 2
        THEN [averageSum |-> 0, averageCount |-> 1, thresholdReached |-> FALSE,
              reviewCount |-> count]
        ELSE [averageSum |-> total, averageCount |-> count,
              thresholdReached |-> 2 * total >= 7 * count /\ count >= 3,
              reviewCount |-> count]

\* --------------------------------------------------------- coordinator
\* the loop of AnswerService.assignReviewersToAnswer and assignNextRoundReviewers:
\* per assignment createReview, then createAssignment; the first throw leaves
\* the loop, is caught, and what was written before it stays
RECURSIVE CreateRecords(_, _, _, _, _)
CreateRecords(reviews, assignments, idc, created, t) ==
    IF created = <<>>
    THEN [threw |-> FALSE, reviews |-> reviews, assignments |-> assignments, nextId |-> idc]
    ELSE LET a == Head(created)
             rev == RepoCreateReview(reviews, idc, a.answerId, a.reviewerId, t)
             asg == RepoCreateAssignment(assignments, a)
         IN  IF rev.threw
             THEN [threw |-> TRUE, reviews |-> reviews, assignments |-> assignments,
                   nextId |-> idc]
             ELSE IF asg.threw
             THEN [threw |-> TRUE, reviews |-> rev.db, assignments |-> assignments,
                   nextId |-> idc + 1]
             ELSE CreateRecords(rev.db, asg.db, idc + 1, Tail(created), t)

Rethrown_NoCatch(threw) == threw

\* catch (error) { console.error('Error assigning reviewers:', error) }: whatever
\* was thrown inside the try block, nothing leaves it
Rethrown(threw) == FALSE

ProfilesRead_AtStart(current, atStart) == atStart

\* reviewerProfiles as assignReviewersToAnswer reads it: the array as it is when
\* the call runs, which has no await and so runs to its end in one piece
ProfilesRead(current, atStart) == current

\* AnswerService.assignReviewersToAnswer(answerId, session)
AssignAndRecord(profiles, store, reviews, assignments, idc, t, answerId) ==
    LET res == AssignReviewersToAnswer(profiles, store, idc, t, answerId, "medium", {})
        rec == CreateRecords(reviews, assignments, res.nextId, res.assignments, t)
    IN  [threw |-> Rethrown(rec.threw), profiles |-> res.profiles, store |-> res.store,
         reviews |-> rec.reviews, assignments |-> rec.assignments, nextId |-> rec.nextId]

\* AnswerService.assignNextRoundReviewers(answerId, session): the reviewer ids of
\* the existing assignments are handed to assignReviewersToAnswer as a fourth
\* argument, which it does not declare
AssignNextRoundReviewers(profiles, store, reviews, assignments, idc, t, answerId) ==
    LET res == AssignReviewersToAnswer(profiles, store, idc, t, answerId, "medium", {})
        rec == CreateRecords(reviews, assignments, res.nextId, res.assignments, t)
    IN  [profiles |-> res.profiles, store |-> res.store,
         reviews |-> rec.reviews, assignments |-> rec.assignments, nextId |-> rec.nextId]

TriggersNextRound_CountOnly(stats) == stats.completedReviews >= 2

\* reviewStats.completedReviews >= 2 && reviewStats.thresholdReached
TriggersNextRound(stats) == stats.completedReviews >= 2 /\ stats.thresholdReached

\* answerRepo.getByAuthorId(authorId, questionId)
AnsweredBy(answers, authorId, questionId) ==
    \E i \in 1..Len(answers) :
        answers[i].authorId = authorId /\ answers[i].questionId = questionId

AddAnswerRejects_ClosedAccepted(questions, answers, questionId, authorId) ==
    \/ questionId \notin Questions
    \/ AnsweredBy(answers, authorId, questionId)

\* the three BadRequestErrors of addAnswer: question not found, question closed,
\* author has already answered
AddAnswerRejects(questions, answers, questionId, authorId) ==
    \/ questionId \notin Questions
    \/ questions[questionId].status = "closed"
    \/ AnsweredBy(answers, authorId, questionId)

\* the ids the store gives to answers
AnswerIdSeq == <<"ans1", "ans2">>

\* the insertedId of the next answer: the first id no stored answer has (the
\* k-th id while nothing has been deleted)
NextAnswerId(answers) ==
    LET free == SelectSeq(AnswerIdSeq,
                          LAMBDA id: \A i \in 1..Len(answers) : answers[i]._id # id)
    IN  Head(free)

\* answerRepo.getById(answerId): the position of the answer, 0 when not found
FindAnswer(answers, answerId) ==
    IF \E i \in 1..Len(answers) : answers[i]._id = answerId
    THEN CHOOSE i \in 1..Len(answers) : answers[i]._id = answerId
    ELSE 0

\* answerRepo.deleteAnswer(answerId)
WithoutAnswer(answers, answerId) == SelectSeq(answers, LAMBDA a: a._id # answerId)

\* status: isFinalAnswer ? 'open' : 'closed' in the updateQuestion of deleteAnswer
StatusAfterDelete(status, isFinalAnswer) == IF isFinalAnswer THEN "open" ELSE "closed"

\* -------------------------------------------------------- blind ranking
\* `Answer ${String.fromCharCode(65 + index)}`, index counted from 0
AnonymousLabels == <<"Answer A", "Answer B", "Answer C">>
AnonymousId(k) == AnonymousLabels[k]

NewBlindAssignment_KeepOwn(id, reviewerId, questionId, answers) ==
    [_id |-> <<"blind", id>>, reviewerId |-> reviewerId, questionId |-> questionId,
     answerMappings |-> [k \in 1..Len(answers) |->
            [anonymousId |-> AnonymousId(k),
             realAnswerId |-> answers[k]._id,
             authorId |-> answers[k].authorId]],
     status |-> "assigned"]

\* PeerReviewService.createBlindAssignment: the record it pushes
NewBlindAssignment(id, reviewerId, questionId, answers) ==
    LET otherAnswers == SelectSeq(answers, LAMBDA a: a.authorId # reviewerId)
    IN  [_id |-> <<"blind", id>>, reviewerId |-> reviewerId, questionId |-> questionId,
         answerMappings |-> [k \in 1..Len(otherAnswers) |->
                [anonymousId |-> AnonymousId(k),
                 realAnswerId |-> otherAnswers[k]._id,
                 authorId |-> otherAnswers[k].authorId]],
         status |-> "assigned"]

\* a lookup by question alone
GetBlindAssignment_ByQuestion(store, reviewerId, questionId) ==
    LET hit(i) == store[i].questionId = questionId
    IN  IF \E i \in 1..Len(store) : hit(i)
        THEN CHOOSE i \in 1..Len(store) : hit(i) /\ \A j \in 1..(i - 1) : ~hit(j)
        ELSE 0

\* PeerReviewService.getBlindAssignment(reviewerId, questionId): the position of
\* the first match, 0 for undefined
GetBlindAssignment(store, reviewerId, questionId) ==
    LET hit(i) == store[i].reviewerId = reviewerId /\ store[i].questionId = questionId
    IN  IF \E i \in 1..Len(store) : hit(i)
        THEN CHOOSE i \in 1..Len(store) : hit(i) /\ \A j \in 1..(i - 1) : ~hit(j)
        ELSE 0

\* assignment.answerMappings.find(m => m.anonymousId === ranking.anonymousId)
HasMapping(assignment, anonymousId) ==
    \E k \in 1..Len(assignment.answerMappings) :
        assignment.answerMappings[k].anonymousId = anonymousId

RealAnswerId_First(assignment, anonymousId) == assignment.answerMappings[1].realAnswerId

\* mapping.realAnswerId of the first mapping with that anonymousId
RealAnswerId(assignment, anonymousId) ==
    LET k == CHOOSE k \in 1..Len(assignment.answerMappings) :
                /\ assignment.answerMappings[k].anonymousId = anonymousId
                /\ \A j \in 1..(k - 1) :
                      assignment.answerMappings[j].anonymousId # anonymousId
    IN  assignment.answerMappings[k].realAnswerId

BordaPoints_FromN(numAnswers, rank) == numAnswers - rank + 1

\* const bordaPoints = numAnswers - ranking.rank
BordaPoints(numAnswers, rank) == numAnswers - rank

\* rankings.map(...) of submitBlindRanking
AnswerRanks(assignment, rankings) ==
    [k \in 1..Len(rankings) |->
        [answerId |-> RealAnswerId(assignment, rankings[k].anonymousId),
         anonymousId |-> rankings[k].anonymousId,
         rank |-> rankings[k].rank,
         bordaPoints |-> BordaPoints(Len(rankings), rankings[k].rank)]]

\* answerRankings.filter(r => r.questionId === questionId)
QuestionRankings(store, questionId) == SelectSeq(store, LAMBDA r: r.questionId = questionId)

\* every rank entry of the rankings, in the order forEach visits them
RECURSIVE RankEntries(_)
RankEntries(rankings) ==
    IF rankings = <<>> THEN <<>>
    ELSE Head(rankings).rankings \o RankEntries(Tail(rankings))

\* the keys of bordaTotals, in the order they were first written
RECURSIVE TotalsKeys(_, _)
TotalsKeys(entries, seen) ==
    IF entries = <<>> THEN <<>>
    ELSE IF Head(entries).answerId \in seen THEN TotalsKeys(Tail(entries), seen)
    ELSE <<Head(entries).answerId>>
            \o TotalsKeys(Tail(entries), seen \cup {Head(entries).answerId})

RECURSIVE SumField(_, _, _)
SumField(entries, answerId, points) ==
    IF entries = <<>> THEN 0
    ELSE (IF Head(entries).answerId = answerId
          THEN (IF points THEN Head(entries).bordaPoints ELSE Head(entries).rank)
          ELSE 0) + SumField(Tail(entries), answerId, points)

FinalRanking_PointsFromRanks(entries, answerId) ==
    [answerId |-> answerId,
     totalBordaPoints |-> SumField(entries, answerId, FALSE),
     rankSum |-> SumField(entries, answerId, FALSE),
     rankCount |-> Len(SelectSeq(entries, LAMBDA e: e.answerId = answerId))]

\* one element of finalRankings; averageRank is the fraction rankSum / rankCount
FinalRanking(entries, answerId) ==
    [answerId |-> answerId,
     totalBordaPoints |-> SumField(entries, answerId, TRUE),
     rankSum |-> SumField(entries, answerId, FALSE),
     rankCount |-> Len(SelectSeq(entries, LAMBDA e: e.answerId = answerId))]

\* finalRankings.sort((a, b) => b.totalBordaPoints - a.totalBordaPoints), stable
RECURSIVE InsertByPoints(_, _)
InsertByPoints(sorted, x) ==
    IF sorted = <<>> THEN <<x>>
    ELSE IF x.totalBordaPoints > sorted[Len(sorted)].totalBordaPoints
         THEN Append(InsertByPoints(SubSeq(sorted, 1, Len(sorted) - 1), x),
                     sorted[Len(sorted)])
         ELSE Append(sorted, x)

RECURSIVE SortByPoints(_)
SortByPoints(seq) ==
    IF seq = <<>> THEN <<>>
    ELSE InsertByPoints(SortByPoints(SubSeq(seq, 1, Len(seq) - 1)), seq[Len(seq)])

\* null
NoAnswer == "null"

\* PeerReviewService.getAnswerById(answerId): the placeholder
GetAnswerById(answerId) == NoAnswer

\* PeerReviewService.calculateBordaWinner(questionId)
BordaWinner(store, questionId) ==
    LET questionRankings == QuestionRankings(store, questionId)
        entries == RankEntries(questionRankings)
        keys == TotalsKeys(entries, {})
        finalRankings == SortByPoints([k \in 1..Len(keys) |-> FinalRanking(entries, keys[k])])
    IN  IF questionRankings = <<>>
        THEN [winner |-> NoAnswer, rankings |-> <<>>, totalReviewers |-> 0]
        ELSE [winner |-> IF Len(finalRankings) > 0
                         THEN GetAnswerById(finalRankings[1].answerId)
                         ELSE NoAnswer,
              rankings |-> finalRankings,
              totalReviewers |-> Len(questionRankings)]

\* ------------------------------------------------------------ operations
\* what the last call was and what it returned
Record(op, result) == [op |-> op, result |-> result]

\* a call of assignReviewersToAnswer; the store holds at most cap assignments
AssignReviewers(answerId, priority, requiredExpertise, cap) ==
    LET res == AssignReviewersToAnswer(reviewerProfiles, reviewerAssignments, nextId, now,
                                       answerId, priority, requiredExpertise)
    IN  /\ Len(res.store) <= cap
        /\ reviewerProfiles' = res.profiles
        /\ reviewerAssignments' = res.store
        /\ nextId' = res.nextId
        /\ last' = Record("assignReviewers", Len(res.assignments))
        /\ UNCHANGED <<ledgerVars, blindVars, dbVars, now, requests>>

\* an hour passes: the next Date.now() is later
Tick ==
    /\ now < Epoch + MaxTicks
    /\ now' = now + 1
    /\ last' = Record("tick", TRUE)
    /\ UNCHANGED <<engineVars, ledgerVars, blindVars, dbVars, nextId, requests>>

AssignmentIds == {reviewerAssignments[i]._id : i \in 1..Len(reviewerAssignments)}

UpdateAssignmentStatus(assignmentId, status) ==
    LET res == UpdateStatusInStore(reviewerProfiles, reviewerAssignments, assignmentId, status)
    IN  /\ reviewerProfiles' = res.profiles
        /\ reviewerAssignments' = res.store
        /\ last' = Record("updateAssignmentStatus", res.ok)
        /\ UNCHANGED <<ledgerVars, blindVars, dbVars, nextId, now, requests>>

RedistributeAssignments ==
    LET res == RedistributeOver(reviewerProfiles, reviewerAssignments, <<>>,
                                OverloadedReviewers(reviewerProfiles))
    IN  /\ reviewerProfiles' = res.profiles
        /\ reviewerAssignments' = res.store
        /\ last' = Record("redistributeAssignments", TRUE)
        /\ UNCHANGED <<ledgerVars, blindVars, dbVars, nextId, now, requests>>

\* updateReviewerAvailability(reviewerId, isActive); reviewer 0 is an unknown id
UpdateReviewerAvailability(reviewerId, isActive) ==
    /\ reviewerProfiles' = IF reviewerId \in Reviewers
                           THEN [reviewerProfiles EXCEPT ![reviewerId].isActive = isActive]
                           ELSE reviewerProfiles
    /\ last' = Record("updateReviewerAvailability", reviewerId \in Reviewers)
    /\ UNCHANGED <<reviewerAssignments, ledgerVars, blindVars, dbVars, nextId, now, requests>>

ReviewIds == {peerReviews[i]._id : i \in 1..Len(peerReviews)}

\* PeerReviewService.createReview(review)
CreateReview(answerId, reviewerId) ==
    /\ Len(peerReviews) < MaxReviews
    /\ peerReviews' = Append(peerReviews, NewReview(<<"review", nextId>>, answerId, reviewerId, now))
    /\ nextId' = nextId + 1
    /\ last' = Record("createReview", TRUE)
    /\ UNCHANGED <<engineVars, blindVars, dbVars, now, requests>>

\* PeerReviewService.submitReview(reviewId, score, comments, similarity)
ServiceSubmitReview(reviewId, score, similarity) ==
    LET res == SubmitReviewInStore(peerReviews, reviewId, score, similarity, now)
    IN  /\ peerReviews' = res.store
        /\ last' = Record("PeerReviewService.submitReview", res.ok)
        /\ UNCHANGED <<engineVars, blindVars, dbVars, nextId, now, requests>>

\* PeerReviewService.updateReviewStatus(reviewId, status)
ServiceUpdateReviewStatus(reviewId, status) ==
    LET i == FindReview(peerReviews, reviewId)
    IN  /\ peerReviews' = IF i = 0 THEN peerReviews
                          ELSE [peerReviews EXCEPT ![i].status = status]
        /\ last' = Record("PeerReviewService.updateReviewStatus", i # 0)
        /\ UNCHANGED <<engineVars, blindVars, dbVars, nextId, now, requests>>

\* ReviewerController.submitReview(reviewId, body, user): "denied" stands for the
\* thrown 'Review not found or access denied'
ControllerSubmitReview(user, reviewId, score, similarity) ==
    LET i == FindReview(peerReviews, reviewId)
    IN  IF i = 0 \/ peerReviews[i].reviewerId # user
        THEN /\ last' = Record("ReviewerController.submitReview", "denied")
             /\ UNCHANGED <<engineVars, ledgerVars, blindVars, dbVars, nextId, now, requests>>
        ELSE LET sub == SubmitReviewInStore(peerReviews, reviewId, score, similarity, now)
                 aid == AssignmentOf(reviewerAssignments, peerReviews[i].answerId, user)
                 upd == IF aid = NoId
                        THEN [profiles |-> reviewerProfiles, store |-> reviewerAssignments]
                        ELSE UpdateStatusInStore(reviewerProfiles, reviewerAssignments,
                                                 aid, "completed")
             IN  /\ peerReviews' = sub.store
                 /\ reviewerProfiles' = upd.profiles
                 /\ reviewerAssignments' = upd.store
                 /\ last' = Record("ReviewerController.submitReview", "success")
                 /\ UNCHANGED <<blindVars, dbVars, nextId, now, requests>>

\* PeerReviewRepository.getReviewStatsForAnswer(answerId)
GetReviewStatsForAnswer(answerId) ==
    /\ last' = Record("getReviewStatsForAnswer", ReviewStats(dbReviews, answerId))
    /\ UNCHANGED <<engineVars, ledgerVars, blindVars, dbVars, nextId, now, requests>>

\* PeerReviewService.calculateSimilarity(answerId)
CalculateSimilarity(answerId) ==
    /\ last' = Record("calculateSimilarity", Similarity(peerReviews, answerId))
    /\ UNCHANGED <<engineVars, ledgerVars, blindVars, dbVars, nextId, now, requests>>

\* AnswerService.addAnswer(questionId, authorId, answer), one transaction
AddAnswer(questionId, authorId) ==
    IF AddAnswerRejects(dbQuestions, dbAnswers, questionId, authorId)
    THEN /\ last' = Record("addAnswer", [threw |-> TRUE, insertedId |-> "", isFinalAnswer |-> FALSE])
         /\ UNCHANGED <<engineVars, ledgerVars, blindVars, dbVars, nextId, now, requests>>
    ELSE /\ Len(dbAnswers) < Len(AnswerIdSeq)
         /\ LET insertedId == NextAnswerId(dbAnswers)
                count == dbQuestions[questionId].totalAnwersCount + 1
                res == AssignAndRecord(reviewerProfiles, reviewerAssignments, dbReviews,
                                       dbAssignments, nextId, now, insertedId)
            IN  /\ reviewerProfiles' = res.profiles
                /\ reviewerAssignments' = res.store
                /\ nextId' = res.nextId
                /\ IF res.threw
                   THEN \* an error leaving the callback aborts the transaction
                        /\ last' = Record("addAnswer", [threw |-> TRUE, insertedId |-> "",
                                                        isFinalAnswer |-> FALSE])
                        /\ UNCHANGED dbVars
                   ELSE /\ dbAnswers' = Append(dbAnswers,
                                [_id |-> insertedId, questionId |-> questionId,
                                 authorId |-> authorId, isFinalAnswer |-> TRUE])
                        /\ dbReviews' = res.reviews
                        /\ dbAssignments' = res.assignments
                        /\ dbQuestions' = [dbQuestions EXCEPT
                                ![questionId] = [status |-> "open",
                                                 totalAnwersCount |-> count]]
                        /\ last' = Record("addAnswer",
                                          [threw |-> FALSE, insertedId |-> insertedId,
                                           isFinalAnswer |-> FALSE])
         /\ UNCHANGED <<ledgerVars, blindVars, now, requests>>

\* AnswerService.updateAnswer(answerId, updates) with updates = {isFinalAnswer},
\* one transaction
UpdateAnswer(answerId, isFinalAnswer) ==
    LET i == FindAnswer(dbAnswers, answerId)
    IN  IF i = 0 \/ dbAnswers[i].questionId \notin Questions
        THEN /\ last' = Record("updateAnswer", [threw |-> TRUE, count |-> 0])
             /\ UNCHANGED <<engineVars, ledgerVars, blindVars, dbVars, nextId, now, requests>>
        ELSE /\ dbAnswers' = [dbAnswers EXCEPT ![i].isFinalAnswer = isFinalAnswer]
             /\ last' = Record("updateAnswer", [threw |-> FALSE, count |-> 1])
             /\ UNCHANGED <<engineVars, ledgerVars, blindVars, dbReviews, dbAssignments,
                            dbQuestions, nextId, now, requests>>

\* AnswerService.deleteAnswer(questionId, answerId), one transaction
DeleteAnswer(questionId, answerId) ==
    LET i == FindAnswer(dbAnswers, answerId)
    IN  IF i = 0 \/ questionId \notin Questions
        THEN /\ last' = Record("deleteAnswer", [threw |-> TRUE, count |-> 0])
             /\ UNCHANGED <<engineVars, ledgerVars, blindVars, dbVars, nextId, now, requests>>
        ELSE /\ dbQuestions' = [dbQuestions EXCEPT
                    ![questionId] =
                        [status |-> StatusAfterDelete(@.status, dbAnswers[i].isFinalAnswer),
                         totalAnwersCount |-> @.totalAnwersCount - 1]]
             /\ dbAnswers' = WithoutAnswer(dbAnswers, answerId)
             /\ last' = Record("deleteAnswer", [threw |-> FALSE, count |-> 1])
             /\ UNCHANGED <<engineVars, ledgerVars, blindVars, dbReviews, dbAssignments,
                            nextId, now, requests>>

\* AnswerService.addAnswer(questionId, authorId, answer) in a transaction that
\* aborts after assignReviewersToAnswer has run (updateQuestion or the commit
\* fails): the writes to the collections are undone, the arrays of
\* ReviewerAssignmentService are outside the session
AddAnswerAborted(questionId, authorId) ==
    /\ ~AddAnswerRejects(dbQuestions, dbAnswers, questionId, authorId)
    /\ Len(dbAnswers) < Len(AnswerIdSeq)
    /\ LET res == AssignAndRecord(reviewerProfiles, reviewerAssignments, dbReviews,
                                  dbAssignments, nextId, now,
                                  NextAnswerId(dbAnswers))
       IN  /\ reviewerProfiles' = res.profiles
           /\ reviewerAssignments' = res.store
           /\ nextId' = res.nextId
    /\ last' = Record("addAnswer aborted",
                      [threw |-> TRUE, insertedId |-> "", isFinalAnswer |-> FALSE])
    /\ UNCHANGED <<ledgerVars, blindVars, dbVars, now, requests>>

\* AnswerService.assignReviewersToAnswer of request i, up to its first await
\* that can yield: the call of ReviewerAssignmentService.assignReviewersToAnswer
RequestAssign(i) ==
    /\ requests.pc[i] = "assign"
    /\ LET res == AssignReviewersToAnswer(
                      ProfilesRead(reviewerProfiles, requests.atStart),
                      reviewerAssignments, nextId, now, AnswerIdSeq[i], "medium", {})
       IN  /\ reviewerProfiles' = res.profiles
           /\ reviewerAssignments' = res.store
           /\ nextId' = res.nextId
           /\ requests' = [requests EXCEPT
                  !.pc[i] = IF res.assignments = <<>> THEN "done" ELSE "record",
                  !.pending[i] = res.assignments]
    /\ last' = Record("assignReviewersToAnswer", i)
    /\ UNCHANGED <<ledgerVars, blindVars, dbVars, now>>

\* one turn of the for loop of request i: createReview and createAssignment for
\* the next assignment; a throw ends the loop in the catch
RequestRecord(i) ==
    /\ requests.pc[i] = "record"
    /\ LET a == Head(requests.pending[i])
           rev == RepoCreateReview(dbReviews, nextId, a.answerId, a.reviewerId, now)
           asg == RepoCreateAssignment(dbAssignments, a)
           rest == IF rev.threw \/ asg.threw THEN <<>> ELSE Tail(requests.pending[i])
       IN  /\ dbReviews' = rev.db
           /\ dbAssignments' = IF rev.threw THEN dbAssignments ELSE asg.db
           /\ nextId' = IF rev.threw THEN nextId ELSE nextId + 1
           /\ requests' = [requests EXCEPT
                  !.pc[i] = IF rest = <<>> THEN "done" ELSE "record",
                  !.pending[i] = rest]
    /\ last' = Record("createReview, createAssignment", i)
    /\ UNCHANGED <<engineVars, ledgerVars, blindVars, dbQuestions, dbAnswers, now>>

\* what AnswerService.submitReview gives back for a reviewId: a thrown
\* BadRequestError, or {submitted, triggersNextRound}
SubmitResult(reviewId, threw, submitted, triggersNextRound) ==
    [reviewId |-> reviewId, threw |-> threw, submitted |-> submitted,
     triggersNextRound |-> triggersNextRound]

DbReviewIds == {dbReviews[i]._id : i \in 1..Len(dbReviews)}

\* AnswerService.submitReview(reviewerId, reviewId, score, comments, similarity),
\* one transaction: a throw undoes the writes to the collections
CoordSubmitReview(reviewerId, reviewId, score, similarity) ==
    LET sub == RepoSubmitReview(dbReviews, reviewId, score, similarity, now)
        i == FindReview(sub.db, reviewId)
        aid == IF i = 0 THEN NoId
               ELSE AssignmentOf(dbAssignments, sub.db[i].answerId, reviewerId)
        upd == IF aid = NoId THEN [threw |-> FALSE, db |-> dbAssignments]
               ELSE RepoUpdateAssignmentStatus(dbAssignments, aid, "completed")
    IN  IF sub.threw \/ upd.threw
        THEN /\ last' = Record("AnswerService.submitReview", SubmitResult(reviewId, TRUE, FALSE, FALSE))
             /\ UNCHANGED <<engineVars, ledgerVars, blindVars, dbVars, nextId, now, requests>>
        ELSE IF i # 0 /\ TriggersNextRound(ReviewStats(sub.db, sub.db[i].answerId))
        THEN LET res == AssignNextRoundReviewers(reviewerProfiles, reviewerAssignments,
                            sub.db, upd.db, nextId, now, sub.db[i].answerId)
             IN  /\ reviewerProfiles' = res.profiles
                 /\ reviewerAssignments' = res.store
                 /\ dbReviews' = res.reviews
                 /\ dbAssignments' = res.assignments
                 /\ nextId' = res.nextId
                 /\ last' = Record("AnswerService.submitReview", SubmitResult(reviewId, FALSE, TRUE, TRUE))
                 /\ UNCHANGED <<ledgerVars, blindVars, dbQuestions, dbAnswers, now, requests>>
        ELSE /\ dbReviews' = sub.db
             /\ dbAssignments' = upd.db
             /\ last' = Record("AnswerService.submitReview", SubmitResult(reviewId, FALSE, TRUE, FALSE))
             /\ UNCHANGED <<engineVars, ledgerVars, blindVars, dbQuestions, dbAnswers,
                            nextId, now, requests>>

\* PeerReviewService.createBlindAssignment(reviewerId, questionId, answers)
CreateBlindAssignment(reviewerId, questionId, answers) ==
    /\ Len(blindAssignments) < MaxBlindAssignments
    /\ blindAssignments' = Append(blindAssignments,
            NewBlindAssignment(nextId, reviewerId, questionId, answers))
    /\ nextId' = nextId + 1
    /\ last' = Record("createBlindAssignment", TRUE)
    /\ UNCHANGED <<engineVars, ledgerVars, answerRankings, dbVars, now, requests>>

\* PeerReviewService.submitBlindRanking(reviewerId, questionId, rankings):
\* "TypeError" stands for the throw on a ranking whose anonymousId has no mapping
SubmitBlindRanking(reviewerId, questionId, rankings) ==
    LET i == GetBlindAssignment(blindAssignments, reviewerId, questionId)
    IN  IF i = 0
        THEN /\ last' = Record("submitBlindRanking", "false")
             /\ UNCHANGED <<engineVars, ledgerVars, blindVars, dbVars, nextId, now, requests>>
        ELSE IF \E k \in 1..Len(rankings) :
                    ~HasMapping(blindAssignments[i], rankings[k].anonymousId)
        THEN /\ last' = Record("submitBlindRanking", "TypeError")
             /\ UNCHANGED <<engineVars, ledgerVars, blindVars, dbVars, nextId, now, requests>>
        ELSE /\ Len(answerRankings) < MaxRankings
             /\ answerRankings' = Append(answerRankings,
                    [_id |-> <<"ranking", nextId>>, reviewerId |-> reviewerId,
                     questionId |-> questionId,
                     rankings |-> AnswerRanks(blindAssignments[i], rankings),
                     status |-> "completed"])
             /\ blindAssignments' = [blindAssignments EXCEPT ![i].status = "completed"]
             /\ nextId' = nextId + 1
             /\ last' = Record("submitBlindRanking", "true")
             /\ UNCHANGED <<engineVars, ledgerVars, dbVars, now, requests>>

\* PeerReviewService.calculateBordaWinner(questionId)
CalculateBordaWinner(questionId) ==
    /\ last' = Record("calculateBordaWinner", BordaWinner(answerRankings, questionId))
    /\ UNCHANGED <<engineVars, ledgerVars, blindVars, dbVars, nextId, now, requests>>

\* ------------------------------------------------------- specifications

\* Reviewer profiles are created out of band.  The start states are the pools
\* of active reviewers with capacities 1..MaxCapacity (in turn) and every load
\* 0 <= load <= max.
Capacity(r) == ((r - 1) % MaxCapacity) + 1

InitProfiles ==
    /\ reviewerProfiles \in
            [Reviewers -> [isActive : {TRUE}, maxConcurrentReviews : 1..MaxCapacity,
                           currentReviewLoad : 0..MaxCapacity]]
    /\ \A r \in Reviewers :
            /\ reviewerProfiles[r].maxConcurrentReviews = Capacity(r)
            /\ reviewerProfiles[r].currentReviewLoad <= Capacity(r)

\* every store empty
InitStores ==
    /\ reviewerAssignments = <<>>
    /\ peerReviews = <<>>
    /\ blindAssignments = <<>>
    /\ answerRankings = <<>>
    /\ dbAssignments = <<>>
    /\ dbQuestions = [q \in Questions |-> [status |-> IF q = "q2" THEN "closed" ELSE "open",
                                           totalAnwersCount |-> 0]]
    /\ dbAnswers = <<>>
    /\ nextId = 1
    /\ now = Epoch
    /\ last = Record("init", TRUE)

\* no request in flight
NoRequests == [pc |-> <<>>, pending |-> <<>>, atStart |-> <<>>]

Init ==
    /\ InitProfiles
    /\ InitStores
    /\ requests = NoRequests
    /\ dbReviews = <<>>

\* The arguments tried in the lifecycle specification.
LifecycleAnswers == {"ans1"}
LifecyclePriorities == {"medium"}
LifecycleExpertise == {{}, {"technology"}, {"poetry"}}
LifecycleToggled == {1, 2}

Next ==
    \/ \E a \in LifecycleAnswers, p \in LifecyclePriorities, e \in LifecycleExpertise :
            AssignReviewers(a, p, e, MaxLifecycleAssignments)
    \/ \E id \in AssignmentIds \cup {NoId}, st \in AssignmentStatuses :
            UpdateAssignmentStatus(id, st)
    \/ RedistributeAssignments
    \/ \E r \in LifecycleToggled \cup {NoReviewer}, b \in BOOLEAN :
            UpdateReviewerAvailability(r, b)

Spec == Init /\ [][Next]_vars

\* The assignment engine alone, over every argument of assignReviewersToAnswer
\* and every pool of active and inactive reviewers.
InitAssign ==
    /\ reviewerProfiles \in
            [Reviewers -> [isActive : BOOLEAN, maxConcurrentReviews : 1..MaxCapacity,
                           currentReviewLoad : 0..MaxCapacity]]
    /\ \A r \in Reviewers :
            /\ reviewerProfiles[r].maxConcurrentReviews = Capacity(r)
            /\ reviewerProfiles[r].currentReviewLoad <= Capacity(r)
    /\ InitStores
    /\ requests = NoRequests
    /\ dbReviews = <<>>

\* one call on the drawn pool, the store still empty
NextAssign ==
    \E a \in AnswerIds, p \in Priorities, e \in ExpertiseArgs :
        /\ reviewerAssignments = <<>>
        /\ AssignReviewers(a, p, e, MaxAssignments)

SpecAssign == InitAssign /\ [][NextAssign]_vars

\* The in-memory review ledger and the controller in front of it, on the pool
\* with no load.
LedgerAnswers == {"ans1"}
LedgerReviewers == {1, 2}

IdlePool ==
    reviewerProfiles = [r \in Reviewers |->
        [isActive |-> TRUE, maxConcurrentReviews |-> Capacity(r), currentReviewLoad |-> 0]]

InitLedger ==
    /\ IdlePool
    /\ InitStores
    /\ requests = NoRequests
    /\ dbReviews = <<>>

\* The engine's lifecycle from the pool with no load, where every load is
\* accounted for by the assignments made since.
SpecIdle == InitLedger /\ [][Next]_vars

\* The same lifecycle with time passing between the calls.
NextTimed ==
    \/ Next
    \/ Tick

SpecTimed == InitLedger /\ [][NextTimed]_vars

NextLedger ==
    \/ \E a \in LedgerAnswers, r \in LedgerReviewers : CreateReview(a, r)
    \/ \E id \in ReviewIds \cup {NoId}, sc \in ScoreArgs, sim \in SimilarityArgs :
            ServiceSubmitReview(id, sc, sim)
    \/ \E id \in ReviewIds \cup {NoId}, st \in ReviewStatuses : ServiceUpdateReviewStatus(id, st)
    \/ \E u \in LedgerReviewers, id \in ReviewIds \cup {NoId}, sc \in ScoreArgs,
          sim \in SimilarityArgs : ControllerSubmitReview(u, id, sc, sim)

SpecLedger == InitLedger /\ [][NextLedger]_vars

\* The coordinator over the stores, on the pool with no load: answers come in,
\* reviews are submitted under the name of a reviewer who holds an assignment
\* for the answer (2) or of one who does not (3).
CoordQuestions == {"q1", "q2", "q0"}
CoordSubmitters == {2, 3}
CoordScores == {0, 3, 4}
CoordSimilarities == {Undefined}
MissingReview == <<"oid", 0>>

InitCoord ==
    /\ IdlePool
    /\ InitStores
    /\ requests = NoRequests
    /\ dbReviews = <<>>

NextCoord ==
    \/ \E q \in CoordQuestions, u \in Authors : AddAnswer(q, u)
    \/ \E r \in CoordSubmitters, id \in DbReviewIds \cup {MissingReview, NoId},
          sc \in CoordScores, sim \in CoordSimilarities : CoordSubmitReview(r, id, sc, sim)

SpecCoord == InitCoord /\ [][NextCoord]_vars

\* The coordinator with the engine's sweep running between its calls.
SweepQuestions == {"q1"}
SweepScores == {4}

NextCoordSweep ==
    \/ \E q \in SweepQuestions, u \in Authors : AddAnswer(q, u)
    \/ \E r \in CoordSubmitters, id \in DbReviewIds, sc \in SweepScores,
          sim \in CoordSimilarities : CoordSubmitReview(r, id, sc, sim)
    \/ RedistributeAssignments

SpecCoordSweep == InitCoord /\ [][NextCoordSweep]_vars

\* Blind ranking: reviewers u1 (author of a1) and u4 (author of nothing) get
\* assignments over lists of the answers of q1 and rank them; the k-th entry of
\* a submitted ranking names the k-th label.
BlindReviewers == {"u1", "u4"}
BlindQuestions == {"q1"}
BlindAnswers == <<[_id |-> "a1", authorId |-> "u1"], [_id |-> "a2", authorId |-> "u2"],
                  [_id |-> "a3", authorId |-> "u3"]>>
AnswerLists == {BlindAnswers, <<BlindAnswers[3], BlindAnswers[2], BlindAnswers[1]>>}
RankingArgs ==
    UNION {{[k \in 1..n |-> [anonymousId |-> AnonymousId(k), rank |-> f[k]]] :
                f \in [1..n -> 1..MaxRank]} : n \in 1..Len(AnonymousLabels)}

InitBlind ==
    /\ IdlePool
    /\ InitStores
    /\ requests = NoRequests
    /\ dbReviews = <<>>

NextBlind ==
    \/ \E r \in BlindReviewers, q \in BlindQuestions, as \in AnswerLists :
            CreateBlindAssignment(r, q, as)
    \/ \E r \in BlindReviewers, q \in BlindQuestions, rk \in RankingArgs :
            SubmitBlindRanking(r, q, rk)
    \/ \E q \in BlindQuestions : CalculateBordaWinner(q)

SpecBlind == InitBlind /\ [][NextBlind]_vars

\* Blind ranking, the submissions alone: rankings of the first n labels in
\* order, by reviewers with and without assignments.
SubmitRankings ==
    {[k \in 1..n |-> [anonymousId |-> AnonymousId(k), rank |-> k]] :
        n \in 1..Len(AnonymousLabels)}

NextBlindSubmit ==
    \/ \E r \in BlindReviewers, q \in BlindQuestions, as \in AnswerLists :
            CreateBlindAssignment(r, q, as)
    \/ \E r \in BlindReviewers, q \in BlindQuestions, rk \in SubmitRankings :
            SubmitBlindRanking(r, q, rk)

SpecBlindSubmit == InitBlind /\ [][NextBlindSubmit]_vars

\* The engine on the reviewer profiles the source file starts with: reviewer_1
\* (5 concurrent reviews, load 2), reviewer_2 (4, load 1) and reviewer_3 (6,
\* load 3); any further reviewer of the model is inactive.
SourceCapacity(r) == CASE r = 1 -> 5 [] r = 2 -> 4 [] r = 3 -> 6 [] OTHER -> 1
SourceLoad(r) == CASE r = 1 -> 2 [] r = 2 -> 1 [] r = 3 -> 3 [] OTHER -> 0

SourcePool ==
    reviewerProfiles = [r \in Reviewers |->
        [isActive |-> r \in 1..3, maxConcurrentReviews |-> SourceCapacity(r),
         currentReviewLoad |-> SourceLoad(r)]]

InitSource ==
    /\ SourcePool
    /\ InitStores
    /\ requests = NoRequests
    /\ dbReviews = <<>>

SourcePriorities == {"medium", "urgent"}
SourceExpertise == {{}, {"science", "mathematics"}}

NextSource ==
    \/ \E a \in AnswerIds, p \in SourcePriorities, e \in SourceExpertise :
            AssignReviewers(a, p, e, MaxSourceAssignments)
    \/ RedistributeAssignments

SpecSource == InitSource /\ [][NextSource]_vars

\* The coordinator's answers: added, updated and deleted, with known and
\* unknown ids; a question's answer count stays within the bound.
AnswerArgs == {"ans1", "ans2", "ans0"}

NextAnswers ==
    \/ \E q \in CoordQuestions, u \in Authors :
            /\ q \in Questions => dbQuestions[q].totalAnwersCount < MaxAnswerCount
            /\ AddAnswer(q, u)
    \/ \E a \in AnswerArgs, f \in BOOLEAN : UpdateAnswer(a, f)
    \/ \E q \in CoordQuestions, a \in AnswerArgs :
            /\ q \in Questions => dbQuestions[q].totalAnwersCount > -MaxAnswerCount
            /\ DeleteAnswer(q, a)

SpecAnswers == InitCoord /\ [][NextAnswers]_vars

\* The coordinator with transactions that may abort.
NextAbort ==
    \/ NextCoord
    \/ \E q \in CoordQuestions, u \in Authors : AddAnswerAborted(q, u)

SpecAbort == InitCoord /\ [][NextAbort]_vars

\* Two addAnswer requests processed concurrently, from every pool InitProfiles
\* draws: each is at its assignReviewersToAnswer, and they take turns at awaits.
Requests == {1, 2}

InitConcurrent ==
    /\ InitProfiles
    /\ InitStores
    /\ dbReviews = <<>>
    /\ requests = [pc |-> [i \in Requests |-> "assign"],
                   pending |-> [i \in Requests |-> <<>>],
                   atStart |-> reviewerProfiles]

NextConcurrent ==
    \/ \E i \in Requests : RequestAssign(i)
    \/ \E i \in Requests : RequestRecord(i)

SpecConcurrent == InitConcurrent /\ [][NextConcurrent]_vars

\* getReviewStatsForAnswer over every small collection of reviews: any status
\* can stand with or without a score (updateReviewStatus writes any status).
MaxStatReviews == 4
StatStatuses == {"assigned", "submitted"}
StatScores == {Undefined, 3, 4, 5}

StatReview(i, answerId, status, score) ==
    [NewReview(<<"oid", i>>, answerId, 1, Epoch) EXCEPT
        !.status = status, !.score = score,
        !.submittedAt = IF score = Undefined THEN Undefined ELSE Epoch]

InitStats ==
    /\ IdlePool
    /\ InitStores
    /\ requests = NoRequests
    /\ \E n \in 0..MaxStatReviews :
         \E f \in [1..n -> AnswerIds \X StatStatuses \X StatScores] :
            dbReviews = [i \in 1..n |-> StatReview(i, f[i][1], f[i][2], f[i][3])]

NextStats == \E a \in AnswerIds : GetReviewStatsForAnswer(a)

SpecStats == InitStats /\ [][NextStats]_vars

\* The two consensus computations over the same reviews: the collection and the
\* in-memory ledger hold every small set of reviews, any status with or without
\* a score.
InitAgree ==
    /\ IdlePool
    /\ reviewerAssignments = <<>>
    /\ blindAssignments = <<>>
    /\ answerRankings = <<>>
    /\ dbAssignments = <<>>
    /\ dbQuestions = [q \in Questions |-> [status |-> IF q = "q2" THEN "closed" ELSE "open",
                                           totalAnwersCount |-> 0]]
    /\ dbAnswers = <<>>
    /\ nextId = 1
    /\ now = Epoch
    /\ last = Record("init", TRUE)
    /\ requests = NoRequests
    /\ \E n \in 0..MaxStatReviews :
         \E f \in [1..n -> AnswerIds \X StatStatuses \X StatScores] :
            dbReviews = [i \in 1..n |-> StatReview(i, f[i][1], f[i][2], f[i][3])]
    /\ peerReviews = dbReviews

NextAgree ==
    \/ \E a \in AnswerIds : GetReviewStatsForAnswer(a)
    \/ \E a \in AnswerIds : CalculateSimilarity(a)

SpecAgree == InitAgree /\ [][NextAgree]_vars

\* createBlindAssignment alone, over every list of distinct answers of q1 in
\* every order, for reviewers who wrote one of them (u1, u2) or none (u4).
CreateReviewers == {"u1", "u2", "u4"}
CreateAnswerLists ==
    {[k \in 1..Len(f) |-> BlindAnswers[f[k]]] :
        f \in {g \in UNION {[1..n -> 1..Len(BlindAnswers)] : n \in 0..Len(BlindAnswers)} :
                  \A i, j \in DOMAIN g : g[i] = g[j] => i = j}}

NextBlindCreate ==
    \E r \in CreateReviewers, q \in BlindQuestions, as \in CreateAnswerLists :
        CreateBlindAssignment(r, q, as)

SpecBlindCreate == InitBlind /\ [][NextBlindCreate]_vars

\* ---------------------------------------------------------------- claims
Load(r) == reviewerProfiles[r].currentReviewLoad
MaxLoad(r) == reviewerProfiles[r].maxConcurrentReviews

\* the assignments a step appended to the store
Appended == SubSeq(reviewerAssignments', Len(reviewerAssignments) + 1, Len(reviewerAssignments'))

\* C1: one call of assignReviewers creates at most 3 assignments, never selects
\* a reviewer whose load equals its maximum at the time of the call, and raises
\* the load of each selected reviewer by exactly 1.
C1_AssignAtMostThreeBelowCapacity ==
    [][\A a \in AnswerIds, p \in Priorities, e \in ExpertiseArgs :
          AssignReviewers(a, p, e, MaxAssignments) =>
              /\ Len(Appended) <= 3
              /\ \A i \in 1..Len(Appended) :
                    LET r == Appended[i].reviewerId
                    IN  /\ Load(r) # MaxLoad(r)
                        /\ reviewerProfiles'[r].currentReviewLoad = Load(r) + 1]_vars

\* a call has just created three assignments and passed over an active reviewer at full capacity
C1_Witness ==
    /\ last.op = "assignReviewers"
    /\ last.result = 3
    /\ \E r \in Reviewers :
          /\ reviewerProfiles[r].isActive
          /\ Load(r) = MaxLoad(r)
          /\ \A i \in (Len(reviewerAssignments) - 2)..Len(reviewerAssignments) :
                reviewerAssignments[i].reviewerId # r

\* C2: every reviewer satisfies 0 <= currentReviewLoad <= maxConcurrentReviews in
\* every state reached by assignReviewers, updateAssignmentStatus,
\* redistributeAssignments and updateReviewerAvailability.
C2_LoadWithinCapacity ==
    \A r \in Reviewers : 0 <= Load(r) /\ Load(r) <= MaxLoad(r)

\* C3: updateAssignmentStatus(id, 'completed') on an existing assignment lowers
\* the load of its reviewer by 1 when it is positive and leaves it at 0
\* otherwise; a load that is not negative does not become negative.
C3_CompletedDecrementsFlooredAtZero ==
    [][\A id \in AssignmentIds :
          UpdateAssignmentStatus(id, "completed") =>
              LET r == reviewerAssignments[FindAssignment(reviewerAssignments, id)].reviewerId
              IN  /\ Load(r) > 0 => reviewerProfiles'[r].currentReviewLoad = Load(r) - 1
                  /\ Load(r) = 0 => reviewerProfiles'[r].currentReviewLoad = 0
                  /\ Load(r) >= 0 => reviewerProfiles'[r].currentReviewLoad >= 0]_vars

\* a completion has just been written for a reviewer whose load is 0: every
\* assignment of that reviewer is completed while the reviewer has capacity 1,
\* and at the start the pool gave it no load
C3_Witness ==
    /\ last.op = "updateAssignmentStatus"
    /\ last.result = TRUE
    /\ \E i \in 1..Len(reviewerAssignments) :
          /\ reviewerAssignments[i].status = "completed"
          /\ Load(reviewerAssignments[i].reviewerId) = 0

\* C4: submitReview accepts every score in 1..5 and rejects every other score,
\* leaving the review's score, status and submittedAt as they were; here on the
\* path of the controller, PeerReviewService.submitReview.
C4_SubmitRejectsScoreOutsideRange ==
    [][\A u \in LedgerReviewers, id \in ReviewIds, sc \in ScoreArgs, sim \in SimilarityArgs :
          ControllerSubmitReview(u, id, sc, sim) =>
              LET i == FindReview(peerReviews, id)
              IN  IF sc \in 1..5
                  THEN peerReviews[i].reviewerId = u =>
                          /\ peerReviews'[i].score = sc
                          /\ peerReviews'[i].status = "submitted"
                  ELSE /\ peerReviews'[i].score = peerReviews[i].score
                       /\ peerReviews'[i].status = peerReviews[i].status
                       /\ peerReviews'[i].submittedAt = peerReviews[i].submittedAt]_vars

\* the reviews of an answer that count: submitted, with a score
C5_Counted(answerId) ==
    {i \in 1..Len(dbReviews) : /\ dbReviews[i].answerId = answerId
                               /\ dbReviews[i].status = "submitted"
                               /\ dbReviews[i].score \in 1..5}

RECURSIVE C5_Sum(_)
C5_Sum(S) ==
    IF S = {} THEN 0
    ELSE LET i == CHOOSE x \in S : TRUE IN dbReviews[i].score + C5_Sum(S \ {i})

\* C5: getReviewStatsForAnswer returns completedReviews = the number of reviews
\* of the answer with status submitted and a score, averageScore = the mean of
\* their scores (0 with none), and thresholdReached exactly when the mean is at
\* least 3.5 and completedReviews is at least 3: true for scores 4, 4, 3 and
\* false for any two reviews.
C5_StatsCountMeanThreshold ==
    last.op = "getReviewStatsForAnswer" =>
        LET st == last.result
            counted == C5_Counted(st.answerId)
            n == Cardinality(counted)
        IN  /\ st.completedReviews = n
            /\ st.scoreSum * (IF n = 0 THEN 1 ELSE n) = C5_Sum(counted) * st.scoreCount
            /\ n = 0 => st.scoreSum = 0
            /\ st.thresholdReached <=> (n >= 3 /\ 10 * C5_Sum(counted) >= 35 * n)
            /\ n = 2 => ~st.thresholdReached

C5_Witness ==
    /\ last.op = "getReviewStatsForAnswer"
    /\ last.result.completedReviews = 3
    /\ last.result.scoreSum = 11
    /\ last.result.thresholdReached
    /\ \E i \in C5_Counted(last.result.answerId) : dbReviews[i].score = 3

\* the stats of the answer of review id, counted on the reviews a step leaves
C6_CountAfter(id) ==
    LET i == FindReview(dbReviews', id)
    IN  IF i = 0 THEN 0
        ELSE Cardinality({j \in 1..Len(dbReviews') :
                /\ dbReviews'[j].answerId = dbReviews'[i].answerId
                /\ dbReviews'[j].status = "submitted"
                /\ dbReviews'[j].score # Undefined})

RECURSIVE C6_SumOver(_, _)
C6_SumOver(reviews, S) ==
    IF S = {} THEN 0
    ELSE LET j == CHOOSE x \in S : TRUE IN reviews[j].score + C6_SumOver(reviews, S \ {j})

C6_SumAfter(id) ==
    LET i == FindReview(dbReviews', id)
    IN  IF i = 0 THEN 0
        ELSE C6_SumOver(dbReviews', {j \in 1..Len(dbReviews') :
                /\ dbReviews'[j].answerId = dbReviews'[i].answerId
                /\ dbReviews'[j].status = "submitted"
                /\ dbReviews'[j].score # Undefined})

C6_NothingCreated ==
    /\ Len(dbReviews') = Len(dbReviews)
    /\ Len(dbAssignments') = Len(dbAssignments)
    /\ UNCHANGED engineVars

\* C6: a review submission through AnswerService.submitReview triggers the next
\* round exactly when, after it, the answer has completedReviews >= 2 and
\* thresholdReached; otherwise no assignment and no review is created, and a
\* submission leaving the answer with two submitted reviews never triggers.
C6_NextRoundIffThreshold ==
    [][last'.op = "AnswerService.submitReview" =>
          LET n == C6_CountAfter(last'.result.reviewId)
              reached == n >= 3 /\ 2 * C6_SumAfter(last'.result.reviewId) >= 7 * n
          IN  IF last'.result.threw
              THEN UNCHANGED <<engineVars, dbVars>>
              ELSE /\ last'.result.triggersNextRound <=> (n >= 2 /\ reached)
                   /\ ~last'.result.triggersNextRound => C6_NothingCreated
                   /\ n = 2 => ~last'.result.triggersNextRound]_vars

C6_Witness ==
    /\ last.op = "AnswerService.submitReview"
    /\ last.result.triggersNextRound
    /\ Len(dbReviews) > 3

\* C7: the submission that brings an answer to three submitted reviews with a
\* mean of at least 3.5 reports the threshold without a second round: it does
\* not trigger a new round and assigns nobody.
C7_ThresholdWithoutSecondRound ==
    [][last'.op = "AnswerService.submitReview" =>
          LET n == C6_CountAfter(last'.result.reviewId)
          IN  (/\ ~last'.result.threw
               /\ n = 3
               /\ 2 * C6_SumAfter(last'.result.reviewId) >= 7 * n) =>
                  /\ ~last'.result.triggersNextRound
                  /\ reviewerAssignments' = reviewerAssignments]_vars

\* C8: a next round never gives a reviewer a second assignment for an answer:
\* no reviewer holds more than one assignment for the same answer.
C8_OneAssignmentPerReviewerAndAnswer ==
    \A i, j \in 1..Len(reviewerAssignments) :
        (/\ reviewerAssignments[i].answerId = reviewerAssignments[j].answerId
         /\ reviewerAssignments[i].reviewerId = reviewerAssignments[j].reviewerId) => i = j

\* the total Borda points of an answer over the completed rankings of a question
RECURSIVE C9_Points(_, _, _)
C9_Points(rankings, questionId, answerId) ==
    IF rankings = <<>> THEN 0
    ELSE LET r == Head(rankings)
             mine == {k \in 1..Len(r.rankings) : r.rankings[k].answerId = answerId}
             RECURSIVE Sum(_)
             Sum(S) == IF S = {} THEN 0
                       ELSE LET k == CHOOSE x \in S : TRUE
                            IN  r.rankings[k].bordaPoints + Sum(S \ {k})
         IN  (IF r.questionId = questionId /\ r.status = "completed" THEN Sum(mine) ELSE 0)
                + C9_Points(Tail(rankings), questionId, answerId)

\* C9: with at least one completed ranking for the question, the winner that
\* calculateBordaWinner returns is the answer with the highest total of Borda
\* points over the completed rankings of the question.
C9_WinnerHasMostPoints ==
    \A q \in BlindQuestions :
        (/\ last.op = "calculateBordaWinner"
         /\ QuestionRankings(answerRankings, q) # <<>>) =>
            /\ last.result.winner \in {BlindAnswers[k]._id : k \in 1..Len(BlindAnswers)}
            /\ \A k \in 1..Len(BlindAnswers) :
                  C9_Points(answerRankings, q, last.result.winner)
                      >= C9_Points(answerRankings, q, BlindAnswers[k]._id)

\* C10: every entry of a recorded ranking of n answers carries bordaPoints =
\* n - rank and the real answer id that the reviewer's blind assignment maps its
\* anonymousId to; three answers ranked 1, 2, 3 carry 2, 1, 0.
C10_BordaPointsAndRealIds ==
    \A i \in 1..Len(answerRankings) :
        LET rec == answerRankings[i]
            n == Len(rec.rankings)
            a == GetBlindAssignment(blindAssignments, rec.reviewerId, rec.questionId)
        IN  /\ a # 0
            /\ \A k \in 1..n :
                  /\ rec.rankings[k].bordaPoints = n - rec.rankings[k].rank
                  /\ \E m \in 1..Len(blindAssignments[a].answerMappings) :
                        /\ blindAssignments[a].answerMappings[m].anonymousId
                              = rec.rankings[k].anonymousId
                        /\ blindAssignments[a].answerMappings[m].realAnswerId
                              = rec.rankings[k].answerId
            /\ (n = 3 /\ \A k \in 1..3 : rec.rankings[k].rank = k) =>
                  \A k \in 1..3 : rec.rankings[k].bordaPoints = 3 - k

C10_Witness ==
    /\ last.op = "submitBlindRanking"
    /\ last.result = "true"
    /\ \E i \in 1..Len(answerRankings) :
          /\ Len(answerRankings[i].rankings) = 3
          /\ \A k \in 1..3 : /\ answerRankings[i].rankings[k].rank = k
                             /\ answerRankings[i].rankings[k].bordaPoints = 3 - k
          /\ answerRankings[i].rankings[1].answerId = "a3"


\* the positions of the answers of a list that the reviewer wrote
C11_Own(reviewerId, answers) == {k \in 1..Len(answers) : answers[k].authorId = reviewerId}

\* C11: for a reviewer who wrote exactly one of the N answers handed in,
\* createBlindAssignment records N - 1 mappings, none of the reviewer's own
\* answer, with pairwise distinct anonymousIds "Answer A", "Answer B", ... given
\* in input order to the remaining answers.
C11_MappingsExcludeOwnInOrder ==
    [][\A r \in CreateReviewers, q \in BlindQuestions, as \in CreateAnswerLists :
          (CreateBlindAssignment(r, q, as) /\ Cardinality(C11_Own(r, as)) = 1) =>
              LET m == blindAssignments'[Len(blindAssignments')].answerMappings
                  own == CHOOSE k \in C11_Own(r, as) : TRUE
                  labels == <<"Answer A", "Answer B", "Answer C">>
              IN  /\ Len(m) = Len(as) - 1
                  /\ \A k \in 1..Len(m) :
                        /\ m[k].realAnswerId # as[own]._id
                        /\ m[k].authorId # r
                        /\ m[k].anonymousId = labels[k]
                        /\ m[k].realAnswerId = as[IF k < own THEN k ELSE k + 1]._id
                  /\ \A j, k \in 1..Len(m) : m[j].anonymousId = m[k].anonymousId => j = k]_vars

C11_Witness ==
    /\ last.op = "createBlindAssignment"
    /\ \E i \in 1..Len(blindAssignments) :
          /\ blindAssignments[i].reviewerId = "u2"
          /\ Len(blindAssignments[i].answerMappings) = 2
          /\ blindAssignments[i].answerMappings[1].realAnswerId = "a3"
          /\ blindAssignments[i].answerMappings[2].anonymousId = "Answer B"

\* C12: addAnswer fails for a question that does not exist, for a closed
\* question and for an author who has already answered the question; a failed
\* call persists no answer and changes no answer count, reviewer load or
\* assignment; so no author ever has two answers to the same question.
C12_AddAnswerRejectsWithoutEffect ==
    /\ [][\A q \in CoordQuestions, u \in Authors :
            (/\ AddAnswer(q, u)
             /\ \/ q \notin {"q1", "q2"}
                \/ dbQuestions[q].status = "closed"
                \/ \E i \in 1..Len(dbAnswers) :
                      dbAnswers[i].questionId = q /\ dbAnswers[i].authorId = u) =>
                /\ last'.result.threw
                /\ UNCHANGED <<engineVars, dbVars>>]_vars
    /\ [](\A i, j \in 1..Len(dbAnswers) :
            (/\ dbAnswers[i].questionId = dbAnswers[j].questionId
             /\ dbAnswers[i].authorId = dbAnswers[j].authorId) => i = j)

C12_Witness ==
    /\ last.op = "addAnswer"
    /\ last.result.threw
    /\ Len(dbAnswers) = 2
    /\ dbQuestions["q1"].totalAnwersCount = 2
    /\ dbAnswers[1].authorId # dbAnswers[2].authorId


\* the call is none that addAnswer rejects
C13_Accepted(q, u) ==
    /\ q = "q1"
    /\ dbQuestions[q].status = "open"
    /\ \A i \in 1..Len(dbAnswers) : ~(dbAnswers[i].questionId = q /\ dbAnswers[i].authorId = u)

\* the reviewers among whom the three for a new answer are taken
C13_Eligible ==
    {r \in Reviewers : /\ reviewerProfiles[r].isActive
                       /\ Load(r) < MaxLoad(r)}

\* C13: when nobody is eligible, or when creating a review or assignment record
\* for a selected reviewer fails, addAnswer still succeeds: it throws nothing,
\* the answer is persisted and the answer count of the question rises by 1.
C13_AnswerAcceptedWithoutReviewers ==
    [][\A q \in CoordQuestions, u \in Authors :
          (/\ AddAnswer(q, u)
           /\ C13_Accepted(q, u)
           /\ \/ C13_Eligible = {}
              \/ Len(dbAssignments') - Len(dbAssignments)
                    < Len(reviewerAssignments') - Len(reviewerAssignments)) =>
              /\ ~last'.result.threw
              /\ Len(dbAnswers') = Len(dbAnswers) + 1
              /\ dbAnswers'[Len(dbAnswers')].questionId = q
              /\ dbAnswers'[Len(dbAnswers')].authorId = u
              /\ dbQuestions'[q].totalAnwersCount = dbQuestions[q].totalAnwersCount + 1]_vars

C13_Witness ==
    /\ last.op = "addAnswer"
    /\ ~last.result.threw
    /\ Len(dbAnswers) = 2
    /\ \E i \in 1..Len(reviewerAssignments) :
          /\ reviewerAssignments[i].answerId = "ans2"
          /\ \A j \in 1..Len(dbAssignments) :
                dbAssignments[j]._id # reviewerAssignments[i]._id


\* C14: when the transaction around addAnswer aborts after reviewers were
\* selected, every reviewer's currentReviewLoad and the assignments are as they
\* were before the call.
C14_AbortRestoresLoadsAndAssignments ==
    [][\A q \in CoordQuestions, u \in Authors :
          AddAnswerAborted(q, u) =>
              /\ \A r \in Reviewers : reviewerProfiles'[r].currentReviewLoad = Load(r)
              /\ reviewerAssignments' = reviewerAssignments
              /\ dbAssignments' = dbAssignments]_vars

\* the assignments reviewer r has received
C15_Received(r) ==
    Cardinality({i \in 1..Len(reviewerAssignments) : reviewerAssignments[i].reviewerId = r})

\* C15: when two concurrently processed requests have assigned reviewers to
\* their answers, whatever the interleaving, every reviewer's currentReviewLoad
\* is its load at the start plus the number of assignments it received from both
\* requests, and no reviewer is above maxConcurrentReviews.
C15_NoLostLoadUpdate ==
    (\A i \in DOMAIN requests.pc : requests.pc[i] = "done") =>
        \A r \in DOMAIN requests.atStart :
            /\ Load(r) = requests.atStart[r].currentReviewLoad + C15_Received(r)
            /\ Load(r) <= MaxLoad(r)

C15_Witness ==
    /\ requests.pc = [i \in Requests |-> "done"]
    /\ \E r \in Reviewers : C15_Received(r) = 2 /\ requests.atStart[r].currentReviewLoad = 0
    /\ \E j \in 1..Len(dbReviews), k \in 1..Len(reviewerAssignments) :
          /\ dbReviews[j].answerId = AnswerIdSeq[1]
          /\ reviewerAssignments[k].answerId = AnswerIdSeq[2]
          /\ dbReviews[j]._id[2] > reviewerAssignments[k]._id[2]

\* C16: updateAssignmentStatus with an id that matches no assignment returns
\* false and changes no assignment and no reviewer load; with an id that matches
\* an assignment it returns true.
C16_UnknownIdFalseKnownIdTrue ==
    [][\A id \in AssignmentIds \cup {NoId}, st \in AssignmentStatuses :
          UpdateAssignmentStatus(id, st) =>
              IF \E i \in 1..Len(reviewerAssignments) : reviewerAssignments[i]._id = id
              THEN last'.result = TRUE
              ELSE /\ last'.result = FALSE
                   /\ reviewerAssignments' = reviewerAssignments
                   /\ reviewerProfiles' = reviewerProfiles]_vars

\* an unknown id has just been refused while assignments exist, one of them
\* already moved on by a call that found its id
C16_Witness ==
    /\ last.op = "updateAssignmentStatus"
    /\ last.result = FALSE
    /\ \E i \in 1..Len(reviewerAssignments) : reviewerAssignments[i].status = "accepted"
    /\ \E i \in 1..Len(reviewerAssignments) : reviewerAssignments[i].status = "pending"

\* the blind assignments of reviewer r for question q
C17_Assigned(r, q) ==
    {i \in 1..Len(blindAssignments) :
        blindAssignments[i].reviewerId = r /\ blindAssignments[i].questionId = q}

\* one AnswerRanking of r for q with status completed has been added, and one
\* assignment of r for q has been marked completed
C17_Recorded(r, q) ==
    /\ last'.result = "true"
    /\ Len(answerRankings') = Len(answerRankings) + 1
    /\ SubSeq(answerRankings', 1, Len(answerRankings)) = answerRankings
    /\ LET rec == answerRankings'[Len(answerRankings')]
       IN  rec.reviewerId = r /\ rec.questionId = q /\ rec.status = "completed"
    /\ \E i \in C17_Assigned(r, q) :
          blindAssignments' = [blindAssignments EXCEPT ![i].status = "completed"]

\* nothing recorded, no assignment touched
C17_Refused ==
    /\ last'.result = "false"
    /\ answerRankings' = answerRankings
    /\ blindAssignments' = blindAssignments

\* C17 as stated: submitBlindRanking for a (reviewerId, questionId) pair with no
\* blind assignment returns false, creates no AnswerRanking and changes no blind
\* assignment; whenever an assignment exists it creates one AnswerRanking with
\* status completed and marks that assignment completed.
C17_RankingRecordedWheneverAssigned ==
    [][\A r \in BlindReviewers, q \in BlindQuestions, rk \in SubmitRankings :
          SubmitBlindRanking(r, q, rk) =>
              IF C17_Assigned(r, q) = {} THEN C17_Refused ELSE C17_Recorded(r, q)]_vars

\* C17, amended: submitBlindRanking for a pair with no blind assignment returns
\* false, creates no AnswerRanking and changes no blind assignment; when an
\* assignment exists and every ranked anonymousId is one of its labels, it
\* creates one AnswerRanking with status completed and marks that assignment
\* completed.
C17_RankingNeedsAssignment ==
    [][\A r \in BlindReviewers, q \in BlindQuestions, rk \in SubmitRankings :
          SubmitBlindRanking(r, q, rk) =>
              IF C17_Assigned(r, q) = {} THEN C17_Refused
              ELSE (\A i \in C17_Assigned(r, q), k \in 1..Len(rk) :
                        \E m \in 1..Len(blindAssignments[i].answerMappings) :
                            blindAssignments[i].answerMappings[m].anonymousId
                                = rk[k].anonymousId)
                   => C17_Recorded(r, q)]_vars

\* a ranking has been refused for a reviewer without an assignment, after the
\* ranking of a reviewer with one was recorded and that assignment completed
C17_Witness ==
    /\ last.op = "submitBlindRanking"
    /\ last.result = "false"
    /\ Len(answerRankings) = 1
    /\ answerRankings[1].status = "completed"
    /\ \E i \in 1..Len(blindAssignments) :
          /\ blindAssignments[i].reviewerId = answerRankings[1].reviewerId
          /\ blindAssignments[i].status = "completed"

\* C18: AnswerService.submitReview marks the assignment of the review's answer
\* and the submitting reviewer completed and lowers that reviewer's
\* currentReviewLoad by 1, floored at 0, as updateAssignmentStatus(id,
\* 'completed') of the assignment engine does.
C18_SubmissionCompletesAndReleasesLoad ==
    [][\A r \in CoordSubmitters, id \in DbReviewIds, sc \in CoordScores \cap (1..5),
         sim \in CoordSimilarities :
          CoordSubmitReview(r, id, sc, sim) =>
              LET aid == AssignmentOf(dbAssignments,
                                      dbReviews[FindReview(dbReviews, id)].answerId, r)
              IN  aid # NoId =>
                    /\ dbAssignments'[FindAssignment(dbAssignments, aid)].status = "completed"
                    /\ ~last'.result.triggersNextRound =>
                          reviewerProfiles'[r].currentReviewLoad
                              = DecrementLoad(reviewerProfiles, r)[r].currentReviewLoad]_vars

\* the review windows, in hours
C19_Window(priority) ==
    CASE priority = "urgent" -> 24
      [] priority = "high" -> 3 * 24
      [] priority = "medium" -> 7 * 24
      [] priority = "low" -> 14 * 24
      [] OTHER -> 7 * 24

\* C19: every assignment created by assignReviewers has dueDate = time of
\* creation + the window of its priority (urgent 24 h, high 3 days, medium 7
\* days, low 14 days, 7 days otherwise): dueDate minus assignedAt is the window.
C19_DueDateIsCreationPlusWindow ==
    \A i \in 1..Len(reviewerAssignments) :
        reviewerAssignments[i].dueDate - reviewerAssignments[i].assignedAt
            = C19_Window(reviewerAssignments[i].priority)

\* the reviewers a call with this expertise list may choose from: the active
\* ones below capacity, narrowed to those sharing an expertise when there are any
C20_Pool(requiredExpertise) ==
    LET open == {r \in Reviewers : reviewerProfiles[r].isActive /\ Load(r) < MaxLoad(r)}
        sharing == {r \in open : Expertise(r) \cap requiredExpertise # {}}
    IN  IF requiredExpertise # {} /\ sharing # {} THEN sharing ELSE open

\* C20: assignReviewers returns exactly min(3, size of the candidate pool)
\* assignments, each to a different reviewer of the pool, each pending and with
\* the given answerId and priority; with an empty pool it returns the empty
\* list and changes no reviewer load and no stored assignment.
C20_UpToThreeDistinctPending ==
    [][\A a \in AnswerIds, p \in Priorities, e \in ExpertiseArgs :
          (reviewerAssignments = <<>> /\ AssignReviewers(a, p, e, MaxAssignments)) =>
              LET pool == C20_Pool(e)
                  made == reviewerAssignments'
              IN  /\ Len(made) = Min(3, Cardinality(pool))
                  /\ last'.result = Len(made)
                  /\ \A i \in 1..Len(made) :
                        /\ made[i].reviewerId \in pool
                        /\ made[i].status = "pending"
                        /\ made[i].answerId = a
                        /\ made[i].priority = p
                        /\ \A j \in 1..Len(made) :
                              made[j].reviewerId = made[i].reviewerId => j = i
                  /\ pool = {} => /\ made = <<>>
                                  /\ reviewerProfiles' = reviewerProfiles]_vars

\* a call has just made three assignments out of a pool of four: a reviewer
\* who is active and below capacity got none
C20_Witness ==
    /\ last.op = "assignReviewers"
    /\ last.result = 3
    /\ Len(reviewerAssignments) = 3
    /\ \E r \in Reviewers :
          /\ reviewerProfiles[r].isActive
          /\ Load(r) < MaxLoad(r)
          /\ \A i \in 1..3 : reviewerAssignments[i].reviewerId # r

\* the active reviewers below capacity
C21_Open == {r \in Reviewers : reviewerProfiles[r].isActive /\ Load(r) < MaxLoad(r)}

\* C21: when requiredExpertise is given and some active reviewer below capacity
\* has one of its tags, every selected reviewer has such a tag, also when fewer
\* than 3 match; when none matches, the selection is made from all active
\* reviewers below capacity and the call returns normally.
C21_ExpertiseFilterWithFallback ==
    [][\A a \in AnswerIds, p \in Priorities, e \in ExpertiseArgs \ {{}} :
          (reviewerAssignments = <<>> /\ AssignReviewers(a, p, e, MaxAssignments)) =>
              LET sharing == {r \in C21_Open : Expertise(r) \cap e # {}}
                  made == reviewerAssignments'
              IN  IF sharing # {}
                  THEN /\ \A i \in 1..Len(made) : made[i].reviewerId \in sharing
                       /\ Len(made) = Min(3, Cardinality(sharing))
                  ELSE /\ \A i \in 1..Len(made) : made[i].reviewerId \in C21_Open
                       /\ Len(made) = Min(3, Cardinality(C21_Open))
                       /\ last'.result = Len(made)]_vars

\* a call has just made a single assignment although two more reviewers are
\* active and below capacity: the expertise list kept them out
C21_Witness ==
    /\ last.op = "assignReviewers"
    /\ last.result = 1
    /\ Len(reviewerAssignments) = 1
    /\ Cardinality(C21_Open \ {reviewerAssignments[1].reviewerId}) >= 2

\* ten times the part of the score that does not depend on the load:
\* averageRating*20 + min(reviewCount/10, 20) + 10 for high and urgent
C22_Fixed10(r, priority) ==
    20 * AverageRating10(r)
    + (IF ReviewCount(r) < 200 THEN ReviewCount(r) ELSE 200)
    + (IF priority = "high" \/ priority = "urgent" THEN 100 ELSE 0)

\* score(r) > score(s) on the profiles given, the load terms (1 - load/max)*30
\* brought to the common denominator max(r)*max(s)
C22_ScoresHigher(profiles, r, s, priority) ==
    LET mr == profiles[r].maxConcurrentReviews
        ms == profiles[s].maxConcurrentReviews
    IN  (C22_Fixed10(r, priority) - C22_Fixed10(s, priority)) * mr * ms
            > 300 * (profiles[r].currentReviewLoad * ms - profiles[s].currentReviewLoad * mr)

\* C22: assignReviewers selects the highest-scoring candidates: no candidate
\* of the pool left unselected has a strictly greater score than a selected
\* one, the score being (1 - load/max)*30 + averageRating*20 +
\* min(reviewCount/10, 20) + (10 if the priority is high or urgent), on the
\* loads at the start of the call.
C22_SelectsHighestScores ==
    [][\A a \in AnswerIds, p \in Priorities, e \in ExpertiseArgs :
          (reviewerAssignments = <<>> /\ AssignReviewers(a, p, e, MaxAssignments)) =>
              LET open == {r \in Reviewers : reviewerProfiles[r].isActive
                                             /\ Load(r) < MaxLoad(r)}
                  sharing == {r \in open : Expertise(r) \cap e # {}}
                  pool == IF sharing # {} THEN sharing ELSE open
                  selected == {reviewerAssignments'[i].reviewerId :
                                  i \in 1..Len(reviewerAssignments')}
              IN  \A u \in pool \ selected, s \in selected :
                      ~C22_ScoresHigher(reviewerProfiles, u, s, p)]_vars

\* three of four candidates have just been selected, and the one left out
\* stands earlier in the profile list than a selected one and scored strictly
\* lower, on the loads before the call, than each selected one
C22_Witness ==
    /\ last.op = "assignReviewers"
    /\ last.result = 3
    /\ Len(reviewerAssignments) = 3
    /\ LET selected == {reviewerAssignments[i].reviewerId : i \in 1..3}
           before == [r \in Reviewers |->
                        IF r \in selected
                        THEN [reviewerProfiles[r] EXCEPT !.currentReviewLoad = @ - 1]
                        ELSE reviewerProfiles[r]]
           p == reviewerAssignments[1].priority
       IN  \E u \in Reviewers \ selected :
              /\ before[u].isActive
              /\ before[u].currentReviewLoad < before[u].maxConcurrentReviews
              /\ \E s \in selected : u < s
              /\ \A s \in selected : C22_ScoresHigher(before, s, u, p)

\* C23: no inactive reviewer receives an assignment: in a step taken while r
\* is inactive, neither assignReviewers nor redistributeAssignments makes r the
\* reviewer of an assignment that was not r's already, and r's
\* currentReviewLoad does not increase.
C23_InactiveReceivesNothing ==
    [][\A r \in Reviewers :
          ~reviewerProfiles[r].isActive =>
              /\ reviewerProfiles'[r].currentReviewLoad <= Load(r)
              /\ \A i \in 1..Len(reviewerAssignments') :
                    reviewerAssignments'[i].reviewerId = r =>
                        /\ i <= Len(reviewerAssignments)
                        /\ reviewerAssignments[i].reviewerId = r]_vars

\* an assignment has just gone to another reviewer while a deactivated
\* reviewer with spare capacity holds none
C23_Witness ==
    /\ last.op = "assignReviewers"
    /\ last.result >= 1
    /\ \E r \in Reviewers :
          /\ ~reviewerProfiles[r].isActive
          /\ Load(r) < MaxLoad(r)
          /\ \A i \in 1..Len(reviewerAssignments) : reviewerAssignments[i].reviewerId # r

\* the assignments naming reviewer r that are not completed
C24_Open(r) ==
    Cardinality({i \in 1..Len(reviewerAssignments) :
                    /\ reviewerAssignments[i].reviewerId = r
                    /\ reviewerAssignments[i].status # "completed"})

\* C24: each reviewer's currentReviewLoad equals its initial load, here 0,
\* plus the number of assignments naming that reviewer whose status is not
\* completed: accepting, declining or re-writing a status leaves the balance,
\* and one assignment causes at most one decrement.
C24_LoadCountsOpenAssignments ==
    \A r \in Reviewers : Load(r) = C24_Open(r)

\* active with currentReviewLoad > 0.8 * maxConcurrentReviews
C25_Overloaded(r) ==
    reviewerProfiles[r].isActive /\ 5 * Load(r) > 4 * MaxLoad(r)

\* active and below capacity
C25_Free(profiles, r) ==
    profiles[r].isActive /\ profiles[r].currentReviewLoad < profiles[r].maxConcurrentReviews

\* the positions whose assignment has changed its reviewer in the step
C25_Moved ==
    {i \in 1..Len(reviewerAssignments) :
        reviewerAssignments'[i].reviewerId # reviewerAssignments[i].reviewerId}

\* the first pending assignment of the first overloaded reviewer, 0 when none
C25_FirstToMove ==
    LET cand == {i \in 1..Len(reviewerAssignments) :
                    /\ reviewerAssignments[i].status = "pending"
                    /\ C25_Overloaded(reviewerAssignments[i].reviewerId)}
        first(i) == \A j \in cand :
                        \/ reviewerAssignments[i].reviewerId < reviewerAssignments[j].reviewerId
                        \/ /\ reviewerAssignments[i].reviewerId = reviewerAssignments[j].reviewerId
                           /\ i <= j
    IN  IF cand = {} THEN 0 ELSE CHOOSE i \in cand : first(i)

C26_MoveResetsAssignedAt ==
    [][RedistributeAssignments =>
        \A i \in C25_Moved :
            /\ reviewerAssignments'[i].assignedAt = now
            /\ reviewerAssignments'[i].status = "pending"
            /\ reviewerAssignments'[i].dueDate = reviewerAssignments[i].dueDate
            /\ reviewerAssignments'[i].answerId = reviewerAssignments[i].answerId
            /\ reviewerAssignments'[i].priority = reviewerAssignments[i].priority]_vars

\* C27: a review has a score if and only if its status is submitted, and a
\* similarity only if it is submitted: no operation leaves a score on a review
\* that is assigned, in_progress, overdue or cancelled, and no review is
\* submitted without a score.
C27_ScoreIffSubmitted ==
    \A i \in 1..Len(peerReviews) :
        /\ (peerReviews[i].score # Undefined) <=> (peerReviews[i].status = "submitted")
        /\ (peerReviews[i].similarity # Undefined) => (peerReviews[i].status = "submitted")

\* the status changes C28 allows: forward along assigned, in_progress,
\* submitted (a submission may come straight from assigned), and from a status
\* other than submitted to overdue or cancelled
C28_Allowed(from, to) ==
    \/ from = "assigned" /\ to \in {"in_progress", "submitted"}
    \/ from = "in_progress" /\ to = "submitted"
    \/ from # "submitted" /\ to \in {"overdue", "cancelled"}

\* C28: a review's status moves only from assigned to in_progress, from
\* in_progress to submitted, or from a status other than submitted to overdue
\* or cancelled; once a review is submitted its status never changes again,
\* under any sequence of submitReview and updateReviewStatus calls.
C28_StatusMovesForwardOnly ==
    [][\A i \in 1..Len(peerReviews) :
          peerReviews'[i].status # peerReviews[i].status =>
              C28_Allowed(peerReviews[i].status, peerReviews'[i].status)]_vars

\* C29: the ranks of every recorded AnswerRanking form a permutation of 1..n
\* over the n answers of the reviewer's blind assignment: every mapped answer
\* is ranked exactly once, with no rank repeated or out of range; a submission
\* that is not such a permutation is not recorded.
C29_RanksArePermutation ==
    \A i \in 1..Len(answerRankings) :
        LET rec == answerRankings[i]
            a == C17_Assigned(rec.reviewerId, rec.questionId)
        IN  \E j \in a :
                LET n == Len(blindAssignments[j].answerMappings)
                IN  /\ Len(rec.rankings) = n
                    /\ \A k \in 1..n :
                          \E m \in 1..n :
                              /\ rec.rankings[m].rank = k
                              /\ \A m2 \in 1..n : rec.rankings[m2].rank = k => m2 = m
                    /\ \A k \in 1..n :
                          \E m \in 1..n :
                              /\ rec.rankings[m].answerId
                                    = blindAssignments[j].answerMappings[k].realAnswerId
                              /\ \A m2 \in 1..n :
                                    rec.rankings[m2].answerId = rec.rankings[m].answerId
                                        => m2 = m

\* the records of a collection for answer a and reviewer r
C30_Of(db, a, r) ==
    {i \in 1..Len(db) : db[i].answerId = a /\ db[i].reviewerId = r}

\* C30: assignments and reviews are 1:1 per (answerId, reviewerId): unless a
\* reviewer assignment failed part-way (an assignment of the engine was not
\* stored), every assignment has exactly one review for its answer and
\* reviewer, and every review exactly one assignment.
C30_AssignmentsAndReviewsPaired ==
    Len(dbAssignments) = Len(reviewerAssignments) =>
        /\ \A i \in 1..Len(reviewerAssignments) :
              Cardinality(C30_Of(dbReviews, reviewerAssignments[i].answerId,
                                 reviewerAssignments[i].reviewerId)) = 1
        /\ \A i \in 1..Len(dbReviews) :
              Cardinality(C30_Of(reviewerAssignments, dbReviews[i].answerId,
                                 dbReviews[i].reviewerId)) = 1

\* the rank entries of an answer in the completed rankings of a question, as
\* (ranking index, entry index) pairs
C31_Entries(questionId, answerId) ==
    UNION {{<<i, k>> : k \in {j \in 1..Len(answerRankings[i].rankings) :
                                    answerRankings[i].rankings[j].answerId = answerId}} :
              i \in {n \in 1..Len(answerRankings) :
                        /\ answerRankings[n].questionId = questionId
                        /\ answerRankings[n].status = "completed"}}

RECURSIVE C31_Sum(_, _)
C31_Sum(S, points) ==
    IF S = {} THEN 0
    ELSE LET p == CHOOSE x \in S : TRUE
             entry == answerRankings[p[1]].rankings[p[2]]
         IN  (IF points THEN entry.bordaPoints ELSE entry.rank) + C31_Sum(S \ {p}, points)

C31_Completed(questionId) ==
    {i \in 1..Len(answerRankings) :
        /\ answerRankings[i].questionId = questionId
        /\ answerRankings[i].status = "completed"}

\* C31: calculateBordaWinner lists every answer ranked in a completed ranking of
\* the question exactly once, with totalBordaPoints the sum of its bordaPoints
\* and averageRank the mean of its ranks over those rankings, by
\* totalBordaPoints descending, with totalReviewers the number of completed
\* rankings; with no ranking it returns null, an empty list and 0.
C31_TallySumsAndOrder ==
    \A q \in BlindQuestions :
        last.op = "calculateBordaWinner" =>
            LET res == last.result
                list == res.rankings
            IN  /\ res.totalReviewers = Cardinality(C31_Completed(q))
                /\ C31_Completed(q) = {} =>
                      /\ res.winner = NoAnswer
                      /\ list = <<>>
                /\ \A a \in {BlindAnswers[n]._id : n \in 1..Len(BlindAnswers)} :
                      C31_Entries(q, a) # {} =>
                          \E k \in 1..Len(list) : list[k].answerId = a
                /\ \A j, k \in 1..Len(list) :
                      (list[j].answerId = list[k].answerId) => j = k
                /\ \A k \in 1..Len(list) :
                      /\ C31_Entries(q, list[k].answerId) # {}
                      /\ list[k].totalBordaPoints
                            = C31_Sum(C31_Entries(q, list[k].answerId), TRUE)
                      /\ list[k].rankSum
                            = C31_Sum(C31_Entries(q, list[k].answerId), FALSE)
                      /\ list[k].rankCount
                            = Cardinality(C31_Entries(q, list[k].answerId))
                /\ \A k \in 1..(Len(list) - 1) :
                      list[k].totalBordaPoints >= list[k + 1].totalBordaPoints

\* a tally of two rankings in which the answers have different totals
C31_Witness ==
    /\ last.op = "calculateBordaWinner"
    /\ last.result.totalReviewers = 2
    /\ Len(last.result.rankings) >= 2
    /\ last.result.rankings[1].totalBordaPoints > last.result.rankings[2].totalBordaPoints
    /\ last.result.rankings[1].rankCount = 2

\* the reviewers with a recorded ranking of the question
C32_Rankers(questionId) ==
    {answerRankings[i].reviewerId :
        i \in {n \in 1..Len(answerRankings) : answerRankings[n].questionId = questionId}}

\* C32: each reviewer contributes at most one ranking per question to the
\* tally: the totalReviewers that calculateBordaWinner returns is the number of
\* distinct reviewers who ranked the question, and a submitBlindRanking by a
\* reviewer who has already ranked it leaves the tally as it was.
C32_OneRankingPerReviewer ==
    /\ \A q \in BlindQuestions :
          last.op = "calculateBordaWinner" =>
              last.result.totalReviewers = Cardinality(C32_Rankers(q))
    /\ \A q \in BlindQuestions :
          \A i, j \in 1..Len(answerRankings) :
              (/\ answerRankings[i].questionId = q
               /\ answerRankings[j].questionId = q
               /\ answerRankings[i].reviewerId = answerRankings[j].reviewerId) => i = j

\* C33: for a fixed reviewer state, answer and expertise argument,
\* assignReviewers selects the same reviewers in the same order for every
\* priority: the assignments of two priorities differ in priority and dueDate
\* alone and the loads after the call are the same; the alternative that
\* redistributeAssignments picks for a reviewer is the same for every priority.
C33_SelectionIndependentOfPriority ==
    [][/\ \A a \in AnswerIds, p \in Priorities, e \in ExpertiseArgs :
          AssignReviewers(a, p, e, MaxAssignments) =>
              \A p2 \in Priorities :
                  LET other == AssignReviewersToAnswer(reviewerProfiles, reviewerAssignments,
                                                       nextId, now, a, p2, e)
                  IN  /\ other.profiles = reviewerProfiles'
                      /\ Len(other.store) = Len(reviewerAssignments')
                      /\ \A i \in 1..Len(other.store) :
                            /\ other.store[i].reviewerId = reviewerAssignments'[i].reviewerId
                            /\ [other.store[i] EXCEPT !.priority = p,
                                    !.dueDate = reviewerAssignments'[i].dueDate]
                                  = reviewerAssignments'[i]
       /\ \A x \in Reviewers, p \in Priorities :
             /\ FindAlternativeReviewer(reviewerProfiles, x, p)
                   = FindAlternativeReviewer(reviewerProfiles, x, "medium")
             /\ FindAlternativeReviewer(reviewerProfiles', x, p)
                   = FindAlternativeReviewer(reviewerProfiles', x, "medium")]_vars

\* an urgent call has selected three of four available reviewers
C33_Witness ==
    /\ last.op = "assignReviewers"
    /\ last.result = 3
    /\ Len(reviewerAssignments) = 3
    /\ reviewerAssignments[1].priority = "urgent"
    /\ \E u \in Reviewers :
          /\ \A i \in 1..3 : reviewerAssignments[i].reviewerId # u
          /\ IsAvailable(reviewerProfiles, u)

\* the reassignments of the sweep that starts in this state, in order
C34_Moves ==
    RedistributeOver(reviewerProfiles, reviewerAssignments, <<>>,
                     OverloadedReviewers(reviewerProfiles)).moves

\* C34: in one redistributeAssignments sweep each assignment changes reviewer
\* at most once, and no assignment is moved onto a reviewer that was above 80%
\* of its capacity when the sweep started.
C34_SweepMovesEachAssignmentOnce ==
    [][RedistributeAssignments =>
          /\ \A j, k \in 1..Len(C34_Moves) :
                C34_Moves[j].assignment = C34_Moves[k].assignment => j = k
          /\ \A k \in 1..Len(C34_Moves) :
                \A n \in 1..Len(OverloadedReviewers(reviewerProfiles)) :
                    C34_Moves[k].to # OverloadedReviewers(reviewerProfiles)[n]]_vars

\* C35: AnswerService.submitReview(reviewerId, reviewId, ...) changes review
\* reviewId only when that review's reviewerId is the caller's; for any other
\* caller no review and no assignment is modified.
C35_OnlyOwnReviewerSubmits ==
    [][\A r \in CoordSubmitters, id \in DbReviewIds \cup {MissingReview, NoId},
          sc \in CoordScores, sim \in CoordSimilarities :
          (/\ CoordSubmitReview(r, id, sc, sim)
           /\ \A i \in 1..Len(dbReviews) :
                 dbReviews[i]._id = id => dbReviews[i].reviewerId # r) =>
              /\ dbReviews' = dbReviews
              /\ dbAssignments' = dbAssignments
              /\ reviewerAssignments' = reviewerAssignments]_vars

\* C36: over the same reviews of an answer, calculateSimilarity and
\* getReviewStatsForAnswer return the same thresholdReached, the same count of
\* completed reviews and the same average score.
C36_ConsensusRulesAgree ==
    \A a \in AnswerIds :
        last.op = "calculateSimilarity" /\ last.result = Similarity(peerReviews, a) =>
            LET stats == ReviewStats(dbReviews, a)
            IN  /\ last.result.thresholdReached = stats.thresholdReached
                /\ last.result.reviewCount = stats.completedReviews
                /\ last.result.averageSum * stats.scoreCount
                      = stats.scoreSum * last.result.averageCount

\* C37: a submission triggers a next round, or creates assignments, only when
\* every review created before it for the answer of the submitted review has
\* been submitted.
C37_NextRoundOnlyWhenAllSubmitted ==
    [][(/\ last'.op = "AnswerService.submitReview"
        /\ \/ last'.result.triggersNextRound
           \/ Len(reviewerAssignments') > Len(reviewerAssignments)) =>
          \A i, j \in 1..Len(dbReviews) :
              (/\ dbReviews[i]._id = last'.result.reviewId
               /\ dbReviews[j].answerId = dbReviews[i].answerId) =>
                  dbReviews'[j].status = "submitted"]_vars

\* C38: at most one stored answer per question has isFinalAnswer = true, and
\* the isFinalAnswer flag stored with a new answer is the isFinalAnswer value
\* that addAnswer returned for it.
C38_OneFinalAnswerAndFlagAsReturned ==
    /\ \A i, j \in 1..Len(dbAnswers) :
          (/\ dbAnswers[i].questionId = dbAnswers[j].questionId
           /\ dbAnswers[i].isFinalAnswer
           /\ dbAnswers[j].isFinalAnswer) => i = j
    /\ (last.op = "addAnswer" /\ ~last.result.threw) =>
          \A i \in 1..Len(dbAnswers) :
              dbAnswers[i]._id = last.result.insertedId =>
                  dbAnswers[i].isFinalAnswer = last.result.isFinalAnswer

\* C39: deleteAnswer of an answer that is not the final answer, from its own
\* question, leaves the question's status as it was, lowers the question's
\* answer count by exactly 1 and not below 0, and when the question was open an
\* addAnswer by an author without an answer to it is still accepted.
C39_DeleteKeepsQuestionOpen ==
    [][\A q \in Questions, a \in AnswerArgs :
          (/\ DeleteAnswer(q, a)
           /\ FindAnswer(dbAnswers, a) # 0
           /\ dbAnswers[FindAnswer(dbAnswers, a)].questionId = q
           /\ ~dbAnswers[FindAnswer(dbAnswers, a)].isFinalAnswer) =>
              /\ dbQuestions'[q].status = dbQuestions[q].status
              /\ dbQuestions'[q].totalAnwersCount = dbQuestions[q].totalAnwersCount - 1
              /\ dbQuestions'[q].totalAnwersCount >= 0
              /\ dbQuestions[q].status = "open" =>
                    \A u \in Authors :
                        ~AnsweredBy(dbAnswers', u, q) =>
                            ~AddAnswerRejects(dbQuestions', dbAnswers', q, u)]_vars
====
